---- MODULE Spec2Model ----
(***************************************************************************)
(* A model of the two stateful edge functions of the repository:          *)
(*   - trigger-round-robin-assignment (the Assignment Scheduler), and     *)
(*   - bulk-send-processor (the Queue Processor),                         *)
(* together with the tables they read and write and the other writers of  *)
(* those tables.  Every await of the handlers is one step of the model,   *)
(* so invocations that overlap in time interleave at the awaits.          *)
(***************************************************************************)
EXTENDS Integers, Sequences, FiniteSets, TLC

(* ---------------------------------------------------------------- bounds *)
\* A run issues at most MaxScans scan queries (the code has no such limit).
MaxScans == 2
\* Other writers change conversation rows at most MaxOtherWrites times.
MaxOtherWrites == 1
\* The scan's page size; 200 in the source, scaled down.
CHUNK_SIZE == 2
\* The queue fetch's limit; 20 in the source, scaled down.
BATCH_SIZE == 2
\* At most MaxInvocations Queue Processor invocations are started.
MaxInvocations == 3
\* At most MaxBatchRuns invocations follow one another on a backlog.
MaxBatchRuns == 2
\* The summary lists at most MaxFailedDetails failures (1000 in the source).
MaxFailedDetails == 2
\* The clock stops at MaxNow seconds.
MaxNow == 2160

(* ------------------------------------------------------ program constants *)
MAX_RETRIES == 3

RETRY_BACKOFF_S == <<60, 300, 1800>>

\* The table with 429 left out.
RATE_LIMIT_CODES_Without429 == {471, 80007, 131047, 80004, 20}

\* The table with the server error 500 added.
RATE_LIMIT_CODES_With500 == {429, 471, 80007, 131047, 80004, 20, 500}

RATE_LIMIT_CODES == {429, 471, 80007, 131047, 80004, 20}

PERM_TEMPLATE_ERR == 470

(* -------------------------------------------------------------- universes *)
Runs == {"r1", "r2"}
Segments == {"s1", "s2"}
Agents == {"a1", "a2", "a3"}
\* Conversation c has created_at = c; the queue rows' created_at is given below.
Convs == {1, 2, 3}
Workers == {"q1", "q2"}
Items == {1, 2, 3}

NoRun == "no_run"
NoAgent == "no_agent"
NoSegment == "no_segment"
\* A null last_chat_assigned_at.
NULL == 0 - 1

VARIABLES
  \* tables
  conversations,    \* [Convs -> [status, assigned_agent_id, segment, version]]
  profile,          \* [Agents -> [role, is_active, present_today, segment, last_chat_assigned_at]]
  advisoryLock,     \* the run whose transaction holds advisory lock 42, or NoRun
  \* one Scheduler invocation per run
  pc,
  targetSegment,
  agentCache,
  assignedCount,
  failedAssignments,
  moreConversationsToProcess,
  conversationsInChunk,
  ci,               \* position of the for loop in conversationsInChunk
  response,
  \* history of a run, read by the properties only
  scans,            \* number of scan queries the run issued
  rosterFetches,    \* number of roster queries the run issued
  rpcLog,           \* the assignment calls the run issued, in order
  rosterSeen,       \* per segment, the eligible (agent, key) pairs at roster fetch
  otherWrites       \* number of writes other writers made

schedVars == <<conversations, profile, advisoryLock, pc, targetSegment, agentCache,
               assignedCount, failedAssignments, moreConversationsToProcess,
               conversationsInChunk, ci, response, scans, rosterFetches, rpcLog,
               rosterSeen, otherWrites>>

VARIABLES
  \* tables
  message_queue,          \* [Items -> row], NoRow once deleted
  bulk_send_details,      \* [Items -> outcome record], one (bulk_send_id, recipient) per item
  is_rate_capped_today,   \* the flag of the sending channel
  now,                    \* the clock, in seconds
  \* one Queue Processor invocation per worker
  qpc,
  queue,                  \* the rows the invocation fetched
  qi,                     \* position of the for loop in queue
  wa,                     \* the answer of callWhatsAppApi for the current row
  qresponse,
  \* history, read by the properties only
  invocations,            \* number of Queue Processor invocations started
  convFailed,             \* the items whose conversation resolution failed after delivery
  convFailedBefore,       \* per worker, the items of convFailed already deleted at its fetch
  fetchedAt,              \* per worker, the clock at its fetch
  answered,               \* per worker, what the provider answered for the current row
  providerSends,          \* per (item, attempt_count), the messages the provider sent out
  steps                   \* per worker, the steps taken for the current row, in order

queueVars == <<message_queue, bulk_send_details, is_rate_capped_today, now, qpc, queue,
               qi, wa, qresponse, invocations, convFailed,
               convFailedBefore, fetchedAt, answered, providerSends, steps>>

VARIABLES
  \* column of conversations written by toggle-chatbot
  is_chatbot_active,      \* [Convs -> BOOLEAN]
  \* one toggle-chatbot request per toggler
  tpc,
  body,                   \* conversation_id and is_active of the request
  version,                \* the number read from If-Match, NULL when there is none
  convoData,              \* the row as the handler's fetch read it
  tresponse               \* the status of the response, 0 while there is none

toggleVars == <<is_chatbot_active, tpc, body, version, convoData, tresponse>>

vars == <<schedVars, queueVars, toggleVars>>

(* ---------------------------------------------------------------- helpers *)
Min(S) == CHOOSE x \in S : \A y \in S : x <= y

Max(S) == CHOOSE x \in S : \A y \in S : x >= y

RECURSIVE Ascending(_)
\* The elements of a set of integers, smallest first.
Ascending(S) == IF S = {} THEN <<>> ELSE <<Min(S)>> \o Ascending(S \ {Min(S)})

Prefix(s, n) == SubSeq(s, 1, IF Len(s) < n THEN Len(s) ELSE n)

(* ----------------------------------------------------- Scheduler queries *)
\* The scan's predicate without its test of the status.
ScanMatches_AnyStatus(seg) ==
  {c \in Convs : /\ conversations[c].assigned_agent_id = NoAgent
                 /\ (seg = NoSegment \/ conversations[c].segment = seg)}

\* The rows the scan's predicate selects: status open, no assignee, and the
\* segment filter when the request names one.
ScanMatches(seg) ==
  {c \in Convs : /\ conversations[c].status = "open"
                 /\ conversations[c].assigned_agent_id = NoAgent
                 /\ (seg = NoSegment \/ conversations[c].segment = seg)}

ScanRow(c) == [id |-> c, segment |-> conversations[c].segment,
               version |-> conversations[c].version]

\* order("created_at", ascending).limit(CHUNK_SIZE)
ScanQuery(seg) ==
  LET ordered == Ascending(ScanMatches(seg))
      page == Prefix(ordered, CHUNK_SIZE)
  IN  [i \in 1..Len(page) |-> ScanRow(page[i])]

\* The roster predicate without its test of present_today.
EligibleAgents_IgnoringAttendance(seg) ==
  {a \in Agents : /\ profile[a].role \in {"agent", "team_leader"}
                  /\ profile[a].is_active
                  /\ profile[a].segment = seg}

\* The roster predicate: role agent or team_leader, active, present, in the segment.
EligibleAgents(seg) ==
  {a \in Agents : /\ profile[a].role \in {"agent", "team_leader"}
                  /\ profile[a].is_active
                  /\ profile[a].present_today
                  /\ profile[a].segment = seg}

\* The order with nullsFirst left out: nulls sort last.
NullsLastLeq(k1, k2) == k2 = NULL \/ (k1 # NULL /\ k1 <= k2)

\* order("last_chat_assigned_at", ascending, nullsFirst): k1 sorts no later than k2.
NullsFirstLeq(k1, k2) == k1 = NULL \/ (k2 # NULL /\ k1 <= k2)

IsOrderedRoster(list, S) ==
  /\ Len(list) = Cardinality(S)
  /\ {list[i] : i \in 1..Len(list)} = S
  /\ \A i, j \in 1..Len(list) :
       i < j => NullsFirstLeq(profile[list[i]].last_chat_assigned_at,
                              profile[list[j]].last_chat_assigned_at)

\* Every answer the roster query may give; rows with equal keys come in any order.
RosterQuery(seg) ==
  LET S == EligibleAgents(seg)
  IN  {list \in UNION {[1..n -> S] : n \in {Cardinality(S)}} : IsOrderedRoster(list, S)}

(* --------------------------------------- the assignment procedure (database) *)
\* assign_conversation_and_update_related rejects a stale p_version.
AssignAccepts(c, v) == conversations[c].version = v

\* The timestamp the procedure writes: later than every one stored.
NextAssignedAt == 1 + Max({profile[a].last_chat_assigned_at : a \in Agents} \cup {0})

AssignedConversations(c, a) ==
  [conversations EXCEPT ![c].assigned_agent_id = a, ![c].version = @ + 1]

AssignedProfile(a) ==
  [profile EXCEPT ![a].last_chat_assigned_at = NextAssignedAt]

(* ------------------------------------------------------ Scheduler: one run *)
NoCache == [cached |-> FALSE, list |-> <<>>, idx |-> 0]

FreshCache == [s \in Segments |-> NoCache]

convo(p) == conversationsInChunk[p][ci[p]]

\* Where the run goes once the for loop is done with the current row: the next
\* row, the next scan (while moreConversationsToProcess), or the summary.
PcAfterRow(p) ==
  IF ci[p] < Len(conversationsInChunk[p]) THEN "row"
  ELSE IF moreConversationsToProcess[p] THEN "scan" ELSE "done"

\* The transaction that took the lock has ended at the latest when the run returns.
LockAfter(p, newPc) ==
  IF newPc = "done" /\ advisoryLock = p THEN NoRun ELSE advisoryLock

NextRow(p) ==
  /\ pc' = [pc EXCEPT ![p] = PcAfterRow(p)]
  /\ ci' = [ci EXCEPT ![p] = IF PcAfterRow(p) = "row" THEN @ + 1 ELSE @]
  /\ response' = [response EXCEPT ![p] = IF PcAfterRow(p) = "done" THEN "OK" ELSE @]
  /\ advisoryLock' = LockAfter(p, PcAfterRow(p))

\* The body of the response that ends a run with its loop finished.
Summary(p) ==
  [assigned_count |-> assignedCount[p],
   failed_count |-> Len(failedAssignments[p]),
   failed_details |-> Prefix(failedAssignments[p], MaxFailedDetails)]

\* The map of the previous invocation found again.
CacheAtStart_Kept(p) == agentCache[p]

\* const agentCache = new Map(), a local of the handler.
CacheAtStart(p) == FreshCache

\* The handler's locals as an invocation starts: its own cache, counters and filter.
Start(p, seg) ==
  /\ pc' = [pc EXCEPT ![p] = "lock"]
  /\ targetSegment' = [targetSegment EXCEPT ![p] = seg]
  /\ agentCache' = [agentCache EXCEPT ![p] = CacheAtStart(p)]
  /\ assignedCount' = [assignedCount EXCEPT ![p] = 0]
  /\ failedAssignments' = [failedAssignments EXCEPT ![p] = <<>>]
  /\ moreConversationsToProcess' = [moreConversationsToProcess EXCEPT ![p] = TRUE]
  /\ conversationsInChunk' = [conversationsInChunk EXCEPT ![p] = <<>>]
  /\ ci' = [ci EXCEPT ![p] = 0]
  /\ response' = [response EXCEPT ![p] = "none"]
  /\ scans' = [scans EXCEPT ![p] = 0]
  /\ rosterFetches' = [rosterFetches EXCEPT ![p] = 0]
  /\ rpcLog' = [rpcLog EXCEPT ![p] = <<>>]
  /\ rosterSeen' = [rosterSeen EXCEPT ![p] = [s \in Segments |-> {}]]
  /\ UNCHANGED <<conversations, profile, advisoryLock, otherWrites>>
  /\ UNCHANGED <<queueVars, toggleVars>>

\* A POST arrives.
Invoke(p, seg) ==
  /\ pc[p] = "idle"
  /\ Start(p, seg)

\* A later POST arrives once the earlier invocation has returned.
InvokeAgain(p, seg) ==
  /\ pc[p] = "done"
  /\ Start(p, seg)

\* The answer of the lock call ignored.
LockAcquired_Ignored(p) == TRUE

\* What pg_try_advisory_xact_lock answers.
LockAcquired(p) == advisoryLock = NoRun

\* rpc("pg_try_advisory_xact_lock"): an rpc error, false, or true.
TryLock(p, rpcFails) ==
  /\ pc[p] = "lock"
  /\ IF rpcFails
       THEN /\ pc' = [pc EXCEPT ![p] = "done"]
            /\ response' = [response EXCEPT ![p] = "LOCK_ERROR"]
            /\ UNCHANGED advisoryLock
       ELSE IF ~LockAcquired(p)
         THEN /\ pc' = [pc EXCEPT ![p] = "done"]
              /\ response' = [response EXCEPT ![p] = "RUNNING_ELSEWHERE"]
              /\ UNCHANGED advisoryLock
         ELSE /\ pc' = [pc EXCEPT ![p] = "scan"]
              /\ advisoryLock' = p
              /\ UNCHANGED response
  /\ UNCHANGED <<conversations, profile, targetSegment, agentCache, assignedCount,
                 failedAssignments, moreConversationsToProcess, conversationsInChunk,
                 ci, scans, rosterFetches, rpcLog, rosterSeen, otherWrites>>
  /\ UNCHANGED <<queueVars, toggleVars>>

\* The lock is transaction-scoped and the handler neither begins nor ends a
\* transaction: the transaction of the rpc that took the lock ends when the
\* database decides, at any time from the rpc's return to the run's end.
LockTransactionEnds(p) ==
  /\ advisoryLock = p
  /\ advisoryLock' = NoRun
  /\ UNCHANGED <<conversations, profile, pc, targetSegment, agentCache, assignedCount,
                 failedAssignments, moreConversationsToProcess, conversationsInChunk,
                 ci, response, scans, rosterFetches, rpcLog, rosterSeen, otherWrites>>
  /\ UNCHANGED <<queueVars, toggleVars>>

\* One pass of the while loop up to the for loop: the scan query and its checks.
Scan(p, queryFails) ==
  /\ pc[p] = "scan"
  /\ scans[p] < MaxScans
  /\ scans' = [scans EXCEPT ![p] = @ + 1]
  /\ IF queryFails
       THEN /\ pc' = [pc EXCEPT ![p] = "done"]
            /\ response' = [response EXCEPT ![p] = "DB_ERROR"]
            /\ advisoryLock' = LockAfter(p, "done")
            /\ UNCHANGED <<moreConversationsToProcess, conversationsInChunk, ci>>
       ELSE LET rows == ScanQuery(targetSegment[p]) IN
            /\ conversationsInChunk' = [conversationsInChunk EXCEPT ![p] = rows]
            /\ IF Len(rows) = 0
                 THEN /\ moreConversationsToProcess' =
                           [moreConversationsToProcess EXCEPT ![p] = FALSE]
                      /\ pc' = [pc EXCEPT ![p] = "done"]
                      /\ response' = [response EXCEPT ![p] = "OK"]
                      /\ advisoryLock' = LockAfter(p, "done")
                      /\ UNCHANGED ci
                 ELSE /\ moreConversationsToProcess' =
                           [moreConversationsToProcess EXCEPT ![p] = (Len(rows) = CHUNK_SIZE)]
                      /\ pc' = [pc EXCEPT ![p] = "row"]
                      /\ ci' = [ci EXCEPT ![p] = 1]
                      /\ UNCHANGED <<response, advisoryLock>>
  /\ UNCHANGED <<conversations, profile, targetSegment, agentCache, assignedCount,
                 failedAssignments, rosterFetches, rpcLog, rosterSeen, otherWrites>>
  /\ UNCHANGED <<queueVars, toggleVars>>

\* The cache never found filled.
CacheHit_Never(p, seg) == FALSE

\* agentCache.get(segment) is defined.
CacheHit(p, seg) == agentCache[p][seg].cached

\* Cache miss: the roster query of the row's segment.  On an error the row fails
\* and nothing is cached; otherwise the list is cached with its cursor at 0.
FetchAgents(p, queryFails) ==
  /\ pc[p] = "row"
  /\ ~CacheHit(p, convo(p).segment)
  /\ rosterFetches' = [rosterFetches EXCEPT ![p] = @ + 1]
  /\ IF queryFails
       THEN /\ failedAssignments' = [failedAssignments EXCEPT ![p] =
                 Append(@, [cid |-> convo(p).id, aid |-> NoAgent, reason |-> "fetch_agents_failed"])]
            /\ NextRow(p)
            /\ UNCHANGED <<agentCache, rosterSeen>>
       ELSE \E list \in RosterQuery(convo(p).segment) :
            /\ agentCache' = [agentCache EXCEPT ![p][convo(p).segment] =
                 [cached |-> TRUE, list |-> list, idx |-> 0]]
            /\ rosterSeen' = [rosterSeen EXCEPT ![p][convo(p).segment] =
                 {<<a, profile[a].last_chat_assigned_at>> : a \in EligibleAgents(convo(p).segment)}]
            /\ UNCHANGED <<failedAssignments, pc, ci, response, advisoryLock>>
  /\ UNCHANGED <<conversations, profile, targetSegment, assignedCount,
                 moreConversationsToProcess, conversationsInChunk, scans, rpcLog,
                 otherWrites>>
  /\ UNCHANGED <<queueVars, toggleVars>>

\* The entry of an empty roster given the reason of a failed call.
NoAgentsFailure_AsRpcFailure(cid) ==
  [cid |-> cid, aid |-> NoAgent, reason |-> "rpc_assign_failed"]

\* { cid, reason: "No available agents in segment ..." }
NoAgentsFailure(cid) ==
  [cid |-> cid, aid |-> NoAgent, reason |-> "no_available_agents"]

\* The cached roster of the row's segment is empty: the row fails.
NoAvailableAgents(p) ==
  /\ pc[p] = "row"
  /\ agentCache[p][convo(p).segment].cached
  /\ Len(agentCache[p][convo(p).segment].list) = 0
  /\ failedAssignments' = [failedAssignments EXCEPT ![p] =
       Append(@, NoAgentsFailure(convo(p).id))]
  /\ NextRow(p)
  /\ UNCHANGED <<conversations, profile, targetSegment, agentCache, assignedCount,
                 moreConversationsToProcess, conversationsInChunk, scans, rosterFetches,
                 rpcLog, rosterSeen, otherWrites>>
  /\ UNCHANGED <<queueVars, toggleVars>>

\* list[idx], 1-based here.
agentToAssign(p) ==
  LET c == agentCache[p][convo(p).segment] IN c.list[c.idx + 1]

\* The cursor left where it is.
AdvancedIdx_Stuck(c) == c.idx

\* The cursor advanced without wrapping.
AdvancedIdx_Unwrapped(c) == c.idx + 1

\* idx = (idx + 1) % list.length
AdvancedIdx(c) == (c.idx + 1) % Len(c.list)

\* The version stored now, as if the row were read again before the call.
VersionPresented_Reread(p) == conversations[convo(p).id].version

\* p_version of the call: the version the scan read.
VersionPresented(p) == convo(p).version

\* Selection, cursor advance, the assignment call and the handling of its answer.
\* The call fails when the procedure rejects the version or for any other reason.
AssignRpc(p, rpcFails) ==
  /\ pc[p] = "row"
  /\ agentCache[p][convo(p).segment].cached
  /\ Len(agentCache[p][convo(p).segment].list) > 0
  /\ LET a == agentToAssign(p)
         c == convo(p).id
         outcome == IF ~AssignAccepts(c, VersionPresented(p)) THEN "version_mismatch"
                    ELSE IF rpcFails THEN "error" ELSE "ok"
         ok == outcome = "ok"
     IN  /\ agentCache' = [agentCache EXCEPT ![p][convo(p).segment].idx =
                              AdvancedIdx(agentCache[p][convo(p).segment])]
         /\ rpcLog' = [rpcLog EXCEPT ![p] =
              Append(@, [cid |-> c, segment |-> convo(p).segment, aid |-> a,
                         version |-> VersionPresented(p), outcome |-> outcome,
                         eligible |-> a \in EligibleAgents(convo(p).segment)])]
         /\ IF ok
              THEN /\ conversations' = AssignedConversations(c, a)
                   /\ profile' = AssignedProfile(a)
                   /\ assignedCount' = [assignedCount EXCEPT ![p] = @ + 1]
                   /\ UNCHANGED failedAssignments
              ELSE /\ failedAssignments' = [failedAssignments EXCEPT ![p] =
                        Append(@, [cid |-> c, aid |-> a, reason |-> "rpc_assign_failed"])]
                   /\ UNCHANGED <<conversations, profile, assignedCount>>
  /\ NextRow(p)
  /\ UNCHANGED <<targetSegment, moreConversationsToProcess, conversationsInChunk,
                 scans, rosterFetches, rosterSeen, otherWrites>>
  /\ UNCHANGED <<queueVars, toggleVars>>

(* ----------------------------------------- other writers of conversations *)
\* toggle-chatbot's accepted update, the request left out: it flips
\* is_chatbot_active and writes version + 1 on the row.
OtherWriterBumpsVersion(c) ==
  /\ otherWrites < MaxOtherWrites
  /\ otherWrites' = otherWrites + 1
  /\ conversations' = [conversations EXCEPT ![c].version = @ + 1]
  /\ is_chatbot_active' = [is_chatbot_active EXCEPT ![c] = ~@]
  /\ UNCHANGED <<profile, advisoryLock, pc, targetSegment, agentCache, assignedCount,
                 failedAssignments, moreConversationsToProcess, conversationsInChunk,
                 ci, response, scans, rosterFetches, rpcLog, rosterSeen>>
  /\ UNCHANGED <<tpc, body, version, convoData, tresponse>>
  /\ UNCHANGED queueVars

(* ------------------------------------------------ other writers of profile *)
\* assign-conversation hands some other conversation to agent a: the
\* procedure stamps the agent's last_chat_assigned_at.
ManualAssign(a) ==
  /\ otherWrites < MaxOtherWrites
  /\ otherWrites' = otherWrites + 1
  /\ profile' = AssignedProfile(a)
  /\ UNCHANGED <<conversations, advisoryLock, pc, targetSegment, agentCache, assignedCount,
                 failedAssignments, moreConversationsToProcess, conversationsInChunk,
                 ci, response, scans, rosterFetches, rpcLog, rosterSeen>>
  /\ UNCHANGED <<queueVars, toggleVars>>

\* An agent's attendance or account changes: present_today or is_active flips.
AttendanceChanges(a, field) ==
  /\ otherWrites < MaxOtherWrites
  /\ otherWrites' = otherWrites + 1
  /\ profile' = IF field = "present_today"
                  THEN [profile EXCEPT ![a].present_today = ~@]
                  ELSE [profile EXCEPT ![a].is_active = ~@]
  /\ UNCHANGED <<conversations, advisoryLock, pc, targetSegment, agentCache, assignedCount,
                 failedAssignments, moreConversationsToProcess, conversationsInChunk,
                 ci, response, scans, rosterFetches, rpcLog, rosterSeen>>
  /\ UNCHANGED <<queueVars, toggleVars>>

(* ------------------------------------------------- Queue Processor: tables *)
NoRow == [status |-> "deleted", attempt_count |-> 0, next_attempt_at |-> 0, joined |-> FALSE,
          malformed |-> FALSE]

NoOutcome == [status |-> "none", whatsapp_message_id |-> "null", failure_reason |-> "null"]

Present(i) == message_queue[i].status # "deleted"

\* The fetch without its filter on next_attempt_at.
DueItems_IgnoringTime ==
  {i \in Items : /\ message_queue[i].status \in {"pending", "retry_queued"}
                 /\ message_queue[i].joined}

\* The fetch taking rows in status processing too.
DueItems_WithProcessing ==
  {i \in Items : /\ message_queue[i].status \in {"pending", "retry_queued", "processing"}
                 /\ message_queue[i].next_attempt_at <= now
                 /\ message_queue[i].joined}

\* The fetch gated by the channel's flag.
DueItems_UnlessCapped ==
  {i \in Items : /\ message_queue[i].status \in {"pending", "retry_queued"}
                 /\ message_queue[i].next_attempt_at <= now
                 /\ message_queue[i].joined
                 /\ ~is_rate_capped_today}

\* The rows the fetch selects: status pending or retry_queued, due, and with the
\* template and channel rows the inner joins require.
DueItems ==
  {i \in Items : /\ message_queue[i].status \in {"pending", "retry_queued"}
                 /\ message_queue[i].next_attempt_at <= now
                 /\ message_queue[i].joined}

QueueRow(i) == [id |-> i, attempt_count |-> message_queue[i].attempt_count,
                next_attempt_at |-> message_queue[i].next_attempt_at,
                joined |-> message_queue[i].joined,
                malformed |-> message_queue[i].malformed]

\* created_at of the rows: row 2 was enqueued first, then row 1, then row 3.
created_at == <<20, 10, 30>>

\* The row of S enqueued last.
Newest(S) == CHOOSE i \in S : \A j \in S : created_at[i] >= created_at[j]

\* The row of S enqueued first.
Oldest(S) == CHOOSE i \in S : \A j \in S : created_at[i] <= created_at[j]

RECURSIVE OldestFirst(_)
\* order("created_at")
OldestFirst(S) == IF S = {} THEN <<>> ELSE <<Oldest(S)>> \o OldestFirst(S \ {Oldest(S)})

\* order("created_at").limit(BATCH_SIZE)
QueueFetch ==
  LET page == Prefix(OldestFirst(DueItems), BATCH_SIZE)
  IN  [k \in 1..Len(page) |-> QueueRow(page[k])]

\* update(...).eq("id", i): no row, no write.
UpdatedQueue(i, fields) ==
  IF Present(i)
    THEN [message_queue EXCEPT ![i] = [f \in DOMAIN @ |->
            IF f \in DOMAIN fields THEN fields[f] ELSE @[f]]]
    ELSE message_queue

\* The delete left out.
DeletedQueue_Forgotten(i) == message_queue

\* delete().eq("id", i)
DeletedQueue(i) == [message_queue EXCEPT ![i] = NoRow]

(* ------------------------------------------------------ the delivery client *)
\* What the provider answers: accepted with a message id, accepted without one,
\* or an error of the given code.
ProviderAnswers == {"accepted_id", "accepted_no_id", "error_429", "error_470", "error_500"}

ProviderAccepted(answer) == answer \in {"accepted_id", "accepted_no_id"}

\* response.status alone, the error's own code ignored.
ErrorCodeOf_StatusOnly(answer) == IF answer = "accepted_no_id" THEN 200 ELSE 400

\* error.code || response.status of an answer that is not a success with an id.
ErrorCodeOf(answer) ==
  CASE answer = "accepted_no_id" -> 200
    [] answer = "error_429" -> 429
    [] answer = "error_470" -> 470
    [] OTHER -> 500

\* callWhatsAppApi: success needs response.ok and messages[0].id.
callWhatsAppApi(answer) ==
  IF answer = "accepted_id"
    THEN [success |-> TRUE, message_id |-> "wamid", error_code |-> 0]
    ELSE [success |-> FALSE, message_id |-> "null", error_code |-> ErrorCodeOf(answer)]

NoAnswer == [success |-> FALSE, message_id |-> "null", error_code |-> 0]

(* -------------------------------------------------- Queue Processor: one run *)
row(q) == queue[q][qi[q]]

\* The table read at the next attempt_count, not at the one read.
Backoff_FromNextAttempt(a) ==
  IF a + 2 \in 1..Len(RETRY_BACKOFF_S) THEN RETRY_BACKOFF_S[a + 2]
  ELSE RETRY_BACKOFF_S[Len(RETRY_BACKOFF_S)]

\* RETRY_BACKOFF_S[attempt_count] ?? RETRY_BACKOFF_S.at(-1)
Backoff(a) ==
  IF a + 1 \in 1..Len(RETRY_BACKOFF_S) THEN RETRY_BACKOFF_S[a + 1]
  ELSE RETRY_BACKOFF_S[Len(RETRY_BACKOFF_S)]

\* The end of one pass of the for loop: the next row, or run_complete.
NextItem(q) ==
  /\ qpc' = [qpc EXCEPT ![q] = IF qi[q] < Len(queue[q]) THEN "row" ELSE "done"]
  /\ qi' = [qi EXCEPT ![q] = IF qi[q] < Len(queue[q]) THEN @ + 1 ELSE @]
  /\ qresponse' = [qresponse EXCEPT ![q] = IF qi[q] < Len(queue[q]) THEN @ ELSE "OK"]

\* failPermanent without its upsert.
FailedOutcome_NotWritten(reason) == NoOutcome

\* failPermanent's first write: the outcome record, status failed.
FailedOutcome(reason) ==
  [status |-> "failed", whatsapp_message_id |-> "null", failure_reason |-> reason]

\* upsert(..., onConflict: bulk_send_id, mobile_number_e164): the record new is
\* inserted, or on a conflict the columns the payload names overwrite those of
\* the record old; failPermanent's payload names no whatsapp_message_id.
Upserted(old, new, columns) ==
  IF old.status = "none" THEN new
  ELSE [f \in DOMAIN old |-> IF f \in columns THEN new[f] ELSE old[f]]

\* The columns the payload of failPermanent's upsert names, and those of the
\* success path's.
FailedColumns == {"status", "failure_reason"}

SentColumns == {"status", "whatsapp_message_id", "failure_reason"}

\* The handler from its entry to the for loop: the queue fetch and its two
\* early returns.
QueueStart(q, fetchFails) ==
  /\ qpc[q] \in {"idle", "done"}
  /\ wa' = [wa EXCEPT ![q] = NoAnswer]
  /\ answered' = [answered EXCEPT ![q] = "none"]
  /\ steps' = [steps EXCEPT ![q] = <<>>]
  /\ fetchedAt' = [fetchedAt EXCEPT ![q] = now]
  /\ convFailedBefore' = [convFailedBefore EXCEPT ![q] = {i \in convFailed : ~Present(i)}]
  /\ IF fetchFails
       THEN /\ qpc' = [qpc EXCEPT ![q] = "done"]
            /\ qresponse' = [qresponse EXCEPT ![q] = "QUEUE_FETCH_ERROR"]
            /\ queue' = [queue EXCEPT ![q] = <<>>]
            /\ qi' = [qi EXCEPT ![q] = 0]
       ELSE /\ queue' = [queue EXCEPT ![q] = QueueFetch]
            /\ IF Len(QueueFetch) = 0
                 THEN /\ qpc' = [qpc EXCEPT ![q] = "done"]
                      /\ qresponse' = [qresponse EXCEPT ![q] = "NO_WORK"]
                      /\ qi' = [qi EXCEPT ![q] = 0]
                 ELSE /\ qpc' = [qpc EXCEPT ![q] = "row"]
                      /\ qresponse' = [qresponse EXCEPT ![q] = "none"]
                      /\ qi' = [qi EXCEPT ![q] = 1]
  /\ UNCHANGED <<message_queue, bulk_send_details, is_rate_capped_today, now,
                 convFailed, providerSends>>
  /\ UNCHANGED <<schedVars, toggleVars>>

\* The trigger starts an invocation, one of a bounded number.
QueueInvoke(q, fetchFails) ==
  /\ invocations < MaxInvocations
  /\ invocations' = invocations + 1
  /\ QueueStart(q, fetchFails)

\* The trigger starts an invocation, again and again: the invocations are not
\* counted.
QueueTrigger(q, fetchFails) ==
  /\ QueueStart(q, fetchFails)
  /\ UNCHANGED invocations

\* The head of the for loop: the check of the joined data comes first, a row
\* without them fails permanently, any other row is then marked processing.
MarkProcessing(q) ==
  /\ qpc[q] = "row"
  /\ IF ~row(q).joined
       THEN /\ bulk_send_details' = [bulk_send_details EXCEPT ![row(q).id] =
                 Upserted(@, FailedOutcome("Missing joined data"), FailedColumns)]
            /\ qpc' = [qpc EXCEPT ![q] = "delete"]
            /\ steps' = [steps EXCEPT ![q] = <<"joined_check", "outcome">>]
            /\ UNCHANGED message_queue
       ELSE /\ message_queue' = UpdatedQueue(row(q).id, [status |-> "processing"])
            /\ qpc' = [qpc EXCEPT ![q] = "send"]
            /\ steps' = [steps EXCEPT ![q] = <<"joined_check", "claim">>]
            /\ UNCHANGED bulk_send_details
  /\ UNCHANGED <<is_rate_capped_today, now, queue, qi, wa, qresponse, invocations,
                 convFailed, convFailedBefore, fetchedAt, answered, providerSends>>
  /\ UNCHANGED <<schedVars, toggleVars>>

\* The idempotency key of the call: q-<id>-<attempt_count of the fetched row>.
idempotencyKey(r) == <<r.id, r.attempt_count>>

\* The provider sends a message out for every request it accepts: the request
\* callWhatsAppApi posts carries nothing of the key, which is only logged.
ProviderSent(answer, key) ==
  IF ProviderAccepted(answer)
    THEN [providerSends EXCEPT ![key] = @ + 1]
    ELSE providerSends

\* The payload is built and the delivery call made.  buildTemplateComponents
\* throws on variables whose body is no array; nothing in the handler catches
\* it, and the invocation ends there.
Send(q, answer) ==
  /\ qpc[q] = "send"
  /\ IF row(q).malformed
       THEN /\ qpc' = [qpc EXCEPT ![q] = "done"]
            /\ qresponse' = [qresponse EXCEPT ![q] = "UNCAUGHT_EXCEPTION"]
            /\ steps' = [steps EXCEPT ![q] = Append(@, "build_payload")]
            /\ UNCHANGED <<wa, answered, providerSends>>
       ELSE /\ wa' = [wa EXCEPT ![q] = callWhatsAppApi(answer)]
            /\ answered' = [answered EXCEPT ![q] = answer]
            /\ providerSends' = ProviderSent(answer, idempotencyKey(row(q)))
            /\ steps' = [steps EXCEPT ![q] = Append(@, "deliver")]
            /\ qpc' = [qpc EXCEPT ![q] =
                 IF callWhatsAppApi(answer).success THEN "persist" ELSE "failure"]
            /\ UNCHANGED qresponse
  /\ UNCHANGED <<message_queue, bulk_send_details, is_rate_capped_today, now, queue, qi,
                 invocations, convFailed, convFailedBefore, fetchedAt>>
  /\ UNCHANGED <<schedVars, toggleVars>>

\* The retry check with > for >=.
RetriesExhausted_OffByOne(a) == a > MAX_RETRIES

\* The retry check one attempt early.
RetriesExhausted_Early(a) == a >= MAX_RETRIES - 1

\* row.attempt_count >= MAX_RETRIES
RetriesExhausted(a) == a >= MAX_RETRIES

\* handleSendFailure from its retry check on: retries exhausted fails the row
\* permanently, otherwise the row is requeued with the next attempt_count.
RetryOrExhaust(q) ==
  IF RetriesExhausted(row(q).attempt_count)
    THEN /\ bulk_send_details' = [bulk_send_details EXCEPT ![row(q).id] =
              Upserted(@, FailedOutcome("Retries exhausted"), FailedColumns)]
         /\ qpc' = [qpc EXCEPT ![q] = "delete"]
         /\ steps' = [steps EXCEPT ![q] = Append(@, "outcome")]
         /\ UNCHANGED <<message_queue, qi, qresponse>>
    ELSE /\ message_queue' = UpdatedQueue(row(q).id,
              [status |-> "retry_queued",
               attempt_count |-> row(q).attempt_count + 1,
               next_attempt_at |-> now + Backoff(row(q).attempt_count)])
         /\ steps' = [steps EXCEPT ![q] = Append(@, "requeue")]
         /\ NextItem(q)
         /\ UNCHANGED bulk_send_details

\* handleSendFailure up to its first write: the template error fails the row
\* permanently, a rate-limit code sets the channel's flag.
HandleSendFailure(q) ==
  /\ qpc[q] = "failure"
  /\ IF wa[q].error_code = PERM_TEMPLATE_ERR
       THEN /\ bulk_send_details' = [bulk_send_details EXCEPT ![row(q).id] =
                 Upserted(@, FailedOutcome("Template error"), FailedColumns)]
            /\ qpc' = [qpc EXCEPT ![q] = "delete"]
            /\ steps' = [steps EXCEPT ![q] = Append(@, "outcome")]
            /\ UNCHANGED <<message_queue, is_rate_capped_today, qi, qresponse>>
       ELSE IF wa[q].error_code \in RATE_LIMIT_CODES
         THEN /\ is_rate_capped_today' = TRUE
              /\ qpc' = [qpc EXCEPT ![q] = "retry"]
              /\ steps' = [steps EXCEPT ![q] = Append(@, "flag")]
              /\ UNCHANGED <<message_queue, bulk_send_details, qi, qresponse>>
         ELSE /\ RetryOrExhaust(q)
              /\ UNCHANGED is_rate_capped_today
  /\ UNCHANGED <<now, queue, wa, invocations, convFailed, convFailedBefore, fetchedAt,
                 answered, providerSends>>
  /\ UNCHANGED <<schedVars, toggleVars>>

\* handleSendFailure after the flag's update.
RetryAfterRateLimit(q) ==
  /\ qpc[q] = "retry"
  /\ RetryOrExhaust(q)
  /\ UNCHANGED <<is_rate_capped_today, now, queue, wa, invocations, convFailed,
                 convFailedBefore, fetchedAt, answered, providerSends>>
  /\ UNCHANGED <<schedVars, toggleVars>>

\* A failed insert turned into a failed record.
SentOutcome_FailedOnInsertError(waId, insFails) ==
  IF insFails THEN FailedOutcome("DB insert failed")
  ELSE [status |-> "sent", whatsapp_message_id |-> waId, failure_reason |-> "null"]

\* The record of the success path: status sent, and the insert's error, if
\* any, as failure_reason.
SentOutcome(waId, insFails) ==
  [status |-> "sent", whatsapp_message_id |-> waId,
   failure_reason |-> IF insFails THEN "DB insert failed" ELSE "null"]

\* After a successful delivery: the conversation rpc, insert_message and the
\* outcome record.  A failed conversation rpc fails the row permanently; a failed
\* insert is noted in the sent record.
Persist(q, convFails, insFails) ==
  /\ qpc[q] = "persist"
  /\ IF convFails
       THEN /\ bulk_send_details' = [bulk_send_details EXCEPT ![row(q).id] =
                 Upserted(@, FailedOutcome("Conversation RPC error"), FailedColumns)]
            /\ convFailed' = convFailed \cup {row(q).id}
            /\ steps' = [steps EXCEPT ![q] = @ \o <<"conversation_failed", "outcome">>]
       ELSE /\ bulk_send_details' = [bulk_send_details EXCEPT ![row(q).id] =
                 Upserted(@, SentOutcome(wa[q].message_id, insFails), SentColumns)]
            /\ UNCHANGED convFailed
            /\ steps' = [steps EXCEPT ![q] = @ \o
                 <<"conversation", IF insFails THEN "insert_failed" ELSE "insert", "outcome">>]
  /\ qpc' = [qpc EXCEPT ![q] = "delete"]
  /\ UNCHANGED <<message_queue, is_rate_capped_today, now, queue, qi, wa, qresponse,
                 invocations, convFailedBefore, fetchedAt, answered, providerSends>>
  /\ UNCHANGED <<schedVars, toggleVars>>

\* The delete that ends failPermanent and the success path.
DeleteRow(q) ==
  /\ qpc[q] = "delete"
  /\ message_queue' = DeletedQueue(row(q).id)
  /\ steps' = [steps EXCEPT ![q] = Append(@, "delete")]
  /\ NextItem(q)
  /\ UNCHANGED <<bulk_send_details, is_rate_capped_today, now, queue, wa, invocations,
                 convFailed, convFailedBefore, fetchedAt, answered, providerSends>>
  /\ UNCHANGED <<schedVars, toggleVars>>

(* ------------------------------------------------- daily-rate-limit-reset *)
\* resetRateCaps: the clock rpc, then the update that clears the flag where it
\* is set; an error of either ends the handler with nothing written.
resetRateCaps(fails) ==
  /\ is_rate_capped_today' = IF fails THEN is_rate_capped_today ELSE FALSE
  /\ UNCHANGED <<message_queue, bulk_send_details, now, qpc, queue, qi, wa, qresponse,
                 invocations, convFailed, convFailedBefore, fetchedAt, answered,
                 providerSends, steps>>
  /\ UNCHANGED <<schedVars, toggleVars>>

\* Time passes, up to a moment a queued row falls due.
Tick(i) ==
  /\ Present(i)
  /\ message_queue[i].next_attempt_at > now
  /\ message_queue[i].next_attempt_at <= MaxNow
  /\ now' = message_queue[i].next_attempt_at
  /\ UNCHANGED <<message_queue, bulk_send_details, is_rate_capped_today, qpc, queue, qi,
                 wa, qresponse, invocations, convFailed, convFailedBefore, fetchedAt,
                 answered, providerSends, steps>>
  /\ UNCHANGED <<schedVars, toggleVars>>

(* ------------------------------------ other writers of conversations, by hand *)
\* assign-conversation: an agent's client presents the version it read and the
\* procedure, accepting it, assigns conversation c to agent a.
AssignConversation(c, a) ==
  /\ otherWrites < MaxOtherWrites
  /\ otherWrites' = otherWrites + 1
  /\ AssignAccepts(c, conversations[c].version)
  /\ conversations' = AssignedConversations(c, a)
  /\ profile' = AssignedProfile(a)
  /\ UNCHANGED <<advisoryLock, pc, targetSegment, agentCache, assignedCount,
                 failedAssignments, moreConversationsToProcess, conversationsInChunk,
                 ci, response, scans, rosterFetches, rpcLog, rosterSeen>>
  /\ UNCHANGED <<queueVars, toggleVars>>

\* set_conversation_status, accepted: the status is written and the version,
\* incremented on every accepted mutation, goes up by one.
StatusSet(c, target) ==
  [conversations EXCEPT ![c].status = target, ![c].version = @ + 1]

\* update-conversation-status: a PATCH that changes the status of conversation c.
SetConversationStatus(c, target) ==
  /\ otherWrites < MaxOtherWrites
  /\ otherWrites' = otherWrites + 1
  /\ conversations[c].status # target
  /\ conversations' = StatusSet(c, target)
  /\ UNCHANGED <<profile, advisoryLock, pc, targetSegment, agentCache, assignedCount,
                 failedAssignments, moreConversationsToProcess, conversationsInChunk,
                 ci, response, scans, rosterFetches, rpcLog, rosterSeen>>
  /\ UNCHANGED <<queueVars, toggleVars>>

(* --------------------------------------------------------- toggle-chatbot *)
Togglers == {"t1", "t2", "t3"}

\* If-Match as a request carries it: no header, or a header with its text.
IfMatchHeaders == {<<>>} \cup {<<text>> : text \in {"", "0", "1", "\"1\"", "\"\"", "-1", "abc"}}

\* !ifMatchHeader: there is no header, or its text is empty.
HeaderMissing(header) == header = <<>> \/ header[1] = ""

\* Number(text.replace(/"/g, "")): the quotes are dropped, the empty text reads
\* as 0, a text that is no number as NaN.
NumberOf(text) ==
  CASE text \in {"0", "\"\""} -> [isNaN |-> FALSE, value |-> 0]
    [] text \in {"1", "\"1\""} -> [isNaN |-> FALSE, value |-> 1]
    [] text = "-1" -> [isNaN |-> FALSE, value |-> 0 - 1]
    [] OTHER -> [isNaN |-> TRUE, value |-> NULL]

\* isNaN(version) || version < 0 is false.
ValidVersion(n) == ~n.isNaN /\ n.value >= 0

\* The update's filter on the version left out.
VersionFilter_Absent(c, v) == TRUE

\* .eq("version", version): the row is updated if its stored version is the
\* one presented.
VersionFilter(c, v) == conversations[c].version = v

\* The response that ends the handler.
Respond(t, status) ==
  /\ tpc' = [tpc EXCEPT ![t] = "done"]
  /\ tresponse' = [tresponse EXCEPT ![t] = status]

\* A PATCH arrives: the If-Match checks, the fetch of the row with the admin
\* client, the check of the chatbot's configuration and the idempotency check.
\* fetched is what the fetch meets: an error, a business number without a chatbot
\* endpoint, or neither.  No write is made.
ToggleRequest(t, cid, is_active, header, fetched) ==
  /\ tpc[t] = "idle"
  /\ body' = [body EXCEPT ![t] = [conversation_id |-> cid, is_active |-> is_active]]
  /\ version' = [version EXCEPT ![t] =
       IF HeaderMissing(header) THEN NULL ELSE NumberOf(header[1]).value]
  /\ IF HeaderMissing(header)
       THEN Respond(t, 428) /\ UNCHANGED convoData
       ELSE IF ~ValidVersion(NumberOf(header[1]))
         THEN Respond(t, 400) /\ UNCHANGED convoData
         ELSE IF fetched = "error"
           THEN Respond(t, 500) /\ UNCHANGED convoData
           ELSE IF cid \notin Convs
             THEN Respond(t, 404) /\ UNCHANGED convoData
             ELSE /\ convoData' = [convoData EXCEPT ![t] =
                       [is_chatbot_active |-> is_chatbot_active[cid],
                        version |-> conversations[cid].version]]
                  /\ IF fetched = "not_configured"
                       THEN Respond(t, 400)
                       ELSE IF is_chatbot_active[cid] = is_active
                         THEN Respond(t, 204)
                         ELSE /\ tpc' = [tpc EXCEPT ![t] = "update"]
                              /\ UNCHANGED tresponse
  /\ UNCHANGED is_chatbot_active
  /\ UNCHANGED <<schedVars, queueVars>>

\* The update with the user's client and the response to its answer.  executed
\* is what becomes of the statement: it runs, row-level security hides the row
\* from it, or the database answers another error.  Run on a row whose version
\* is not the one presented it updates no row, as when the row is hidden: 409.
ToggleUpdate(t, executed) ==
  /\ tpc[t] = "update"
  /\ LET c == body[t].conversation_id
         applied == executed = "runs" /\ VersionFilter(c, version[t])
     IN  /\ conversations' = IF applied
              THEN [conversations EXCEPT ![c].version = version[t] + 1]
              ELSE conversations
         /\ is_chatbot_active' = IF applied
              THEN [is_chatbot_active EXCEPT ![c] = body[t].is_active]
              ELSE is_chatbot_active
         /\ Respond(t, IF applied THEN 200 ELSE IF executed = "error" THEN 500 ELSE 409)
  /\ UNCHANGED <<body, version, convoData>>
  /\ UNCHANGED <<profile, advisoryLock, pc, targetSegment, agentCache, assignedCount,
                 failedAssignments, moreConversationsToProcess, conversationsInChunk,
                 ci, response, scans, rosterFetches, rpcLog, rosterSeen, otherWrites>>
  /\ UNCHANGED queueVars

(* ------------------------------------------------------------------ Init *)
\* No toggle-chatbot request has arrived; no chatbot is active.
InitToggle ==
  /\ is_chatbot_active = [c \in Convs |-> FALSE]
  /\ tpc = [t \in Togglers |-> "idle"]
  /\ body = [t \in Togglers |-> [conversation_id |-> NULL, is_active |-> FALSE]]
  /\ version = [t \in Togglers |-> NULL]
  /\ convoData = [t \in Togglers |-> [is_chatbot_active |-> FALSE, version |-> NULL]]
  /\ tresponse = [t \in Togglers |-> 0]

InitProfile ==
  /\ profile \in [Agents -> [role : {"agent", "team_leader", "admin"},
                             is_active : BOOLEAN, present_today : BOOLEAN,
                             segment : Segments,
                             last_chat_assigned_at : {NULL, 1, 2}]]
  /\ profile["a1"].role = "agent" /\ profile["a1"].segment = "s1"
  /\ profile["a1"].is_active /\ profile["a1"].present_today
  /\ profile["a1"].last_chat_assigned_at \in {NULL, 2}
  /\ profile["a2"].role = "team_leader" /\ profile["a2"].segment = "s1"
  /\ profile["a2"].is_active
  /\ profile["a2"].last_chat_assigned_at = 1
  /\ profile["a3"].segment = "s2" /\ profile["a3"].is_active /\ profile["a3"].present_today
  /\ profile["a3"].last_chat_assigned_at = NULL
  /\ profile["a3"].role \in {"agent", "admin"}

InitConversations ==
  /\ conversations \in [Convs -> [status : {"open"}, assigned_agent_id : {NoAgent},
                                  segment : Segments, version : {0}]]
  /\ conversations[3].segment = "s1"

InitSched ==
  /\ InitToggle
  /\ InitProfile
  /\ InitConversations
  /\ advisoryLock = NoRun
  /\ pc = [p \in Runs |-> "idle"]
  /\ targetSegment = [p \in Runs |-> NoSegment]
  /\ agentCache = [p \in Runs |-> FreshCache]
  /\ assignedCount = [p \in Runs |-> 0]
  /\ failedAssignments = [p \in Runs |-> <<>>]
  /\ moreConversationsToProcess = [p \in Runs |-> TRUE]
  /\ conversationsInChunk = [p \in Runs |-> <<>>]
  /\ ci = [p \in Runs |-> 0]
  /\ response = [p \in Runs |-> "none"]
  /\ scans = [p \in Runs |-> 0]
  /\ rosterFetches = [p \in Runs |-> 0]
  /\ rpcLog = [p \in Runs |-> <<>>]
  /\ rosterSeen = [p \in Runs |-> [s \in Segments |-> {}]]
  /\ otherWrites = 0

\* A row as a run may find it: pending and never attempted, or requeued after
\* two failed attempts and due again.
EnqueuedRows ==
  [status : {"pending"}, attempt_count : {0}, next_attempt_at : {0}, joined : BOOLEAN,
   malformed : BOOLEAN]
  \cup [status : {"retry_queued"}, attempt_count : {2}, next_attempt_at : {0}, joined : {TRUE},
         malformed : {FALSE}]

InitQueue ==
  /\ message_queue \in [Items -> EnqueuedRows \cup {NoRow}]
  /\ bulk_send_details = [i \in Items |-> NoOutcome]
  /\ is_rate_capped_today = FALSE
  /\ now = 0
  /\ qpc = [q \in Workers |-> "idle"]
  /\ queue = [q \in Workers |-> <<>>]
  /\ qi = [q \in Workers |-> 0]
  /\ wa = [q \in Workers |-> NoAnswer]
  /\ qresponse = [q \in Workers |-> "none"]
  /\ invocations = 0
  /\ convFailed = {}
  /\ convFailedBefore = [q \in Workers |-> {}]
  /\ fetchedAt = [q \in Workers |-> 0]
  /\ answered = [q \in Workers |-> "none"]
  /\ providerSends = [k \in Items \X (0..MAX_RETRIES) |-> 0]
  /\ steps = [q \in Workers |-> <<>>]

\* The Scheduler's specifications start from an empty queue, the Queue
\* Processor's from one fixed set of conversations and profiles.
QueueAtRest ==
  /\ InitQueue
  /\ \A i \in Items : message_queue[i] = NoRow

SchedAtRest ==
  /\ InitSched
  /\ \A c \in Convs : conversations[c].segment = "s1"
  /\ profile["a1"].last_chat_assigned_at = NULL
  /\ profile["a2"].present_today
  /\ profile["a3"].role = "agent"

Init == InitSched /\ InitQueue

\* One invocation and the other writers of the tables.
NextSched ==
  \/ \E seg \in Segments \cup {NoSegment} : Invoke("r1", seg)
  \/ \E f \in BOOLEAN : TryLock("r1", f)
  \/ LockTransactionEnds("r1")
  \/ \E f \in BOOLEAN : Scan("r1", f)
  \/ \E f \in BOOLEAN : FetchAgents("r1", f)
  \/ NoAvailableAgents("r1")
  \/ \E f \in BOOLEAN : AssignRpc("r1", f)
  \/ \E c \in Convs : OtherWriterBumpsVersion(c)

\* One scheduler invocation, the queue empty.
InitSolo == InitSched /\ QueueAtRest

SpecSched == InitSolo /\ [][NextSched]_vars

\* Two invocations that overlap in time.
NextPair ==
  \/ \E p \in Runs, seg \in Segments \cup {NoSegment} : Invoke(p, seg)
  \/ \E p \in Runs, f \in BOOLEAN : TryLock(p, f)
  \/ \E p \in Runs : LockTransactionEnds(p)
  \/ \E p \in Runs, f \in BOOLEAN : Scan(p, f)
  \/ \E p \in Runs, f \in BOOLEAN : FetchAgents(p, f)
  \/ \E p \in Runs : NoAvailableAgents(p)
  \/ \E p \in Runs, f \in BOOLEAN : AssignRpc(p, f)

\* One backlog: a conversation of s1, whose roster has two agents, one of s2,
\* whose roster is empty, and the rest of s1.
InitPair ==
  /\ InitSched
  /\ QueueAtRest
  /\ conversations[1].segment = "s1"
  /\ conversations[2].segment = "s2"
  /\ profile["a1"].last_chat_assigned_at = NULL
  /\ profile["a2"].present_today
  /\ profile["a3"].role = "admin"

SpecPair == InitPair /\ [][NextPair]_vars

\* One invocation while other writers change the agents' profiles.
NextRoster ==
  \/ \E seg \in Segments \cup {NoSegment} : Invoke("r1", seg)
  \/ \E f \in BOOLEAN : TryLock("r1", f)
  \/ LockTransactionEnds("r1")
  \/ \E f \in BOOLEAN : Scan("r1", f)
  \/ \E f \in BOOLEAN : FetchAgents("r1", f)
  \/ NoAvailableAgents("r1")
  \/ \E f \in BOOLEAN : AssignRpc("r1", f)
  \/ \E a \in Agents : ManualAssign(a)
  \/ \E a \in Agents, field \in {"present_today", "is_active"} : AttendanceChanges(a, field)

\* Two conversations of s1, whose roster is a1 then a2, and one of s2, whose
\* roster is a3.
InitRoster ==
  /\ InitSched
  /\ QueueAtRest
  /\ conversations[1].segment = "s1"
  /\ conversations[2].segment = "s2"
  /\ profile["a1"].last_chat_assigned_at = NULL
  /\ profile["a2"].present_today
  /\ profile["a3"].role = "agent"

SpecRoster == InitRoster /\ [][NextRoster]_vars

\* One invocation after the other while agents assign and close conversations
\* by hand.
NextBacklog ==
  \/ \E seg \in Segments \cup {NoSegment} : Invoke("r1", seg)
  \/ \E seg \in Segments \cup {NoSegment} : InvokeAgain("r1", seg)
  \/ \E f \in BOOLEAN : TryLock("r1", f)
  \/ LockTransactionEnds("r1")
  \/ \E f \in BOOLEAN : Scan("r1", f)
  \/ \E f \in BOOLEAN : FetchAgents("r1", f)
  \/ NoAvailableAgents("r1")
  \/ \E f \in BOOLEAN : AssignRpc("r1", f)
  \/ \E c \in Convs, a \in Agents : AssignConversation(c, a)
  \/ \E c \in Convs, target \in {"open", "closed"} : SetConversationStatus(c, target)

\* Conversations 1 and 3 of s1, whose roster is a1 then a2, and conversation 2
\* of s2, whose roster is empty.
InitBacklog ==
  /\ InitSched
  /\ QueueAtRest
  /\ conversations[1].segment = "s1"
  /\ conversations[2].segment = "s2"
  /\ profile["a1"].last_chat_assigned_at = NULL
  /\ profile["a2"].present_today
  /\ profile["a3"].role = "admin"

SpecBacklog == InitBacklog /\ [][NextBacklog]_vars

\* Queue Processor invocations, overlapping in time, and the clock.
NextQueue ==
  \/ \E q \in Workers, f \in BOOLEAN : QueueInvoke(q, f)
  \/ \E q \in Workers : MarkProcessing(q)
  \/ \E q \in Workers, answer \in ProviderAnswers : Send(q, answer)
  \/ \E q \in Workers : HandleSendFailure(q)
  \/ \E q \in Workers : RetryAfterRateLimit(q)
  \/ \E q \in Workers, cf \in BOOLEAN, insf \in BOOLEAN : Persist(q, cf, insf)
  \/ \E q \in Workers : DeleteRow(q)
  \/ \E f \in BOOLEAN : resetRateCaps(f)
  \/ \E i \in Items : Tick(i)

\* Invocations racing on one row: row 1 is enqueued with its joined data and
\* well-formed variables.  Row 2 is absent, or enqueued for a campaign whose
\* template row is gone; row 3 is absent.
InitRace ==
  /\ SchedAtRest
  /\ InitQueue
  /\ Present(1) /\ message_queue[1].joined /\ ~message_queue[1].malformed
  /\ message_queue[2] = NoRow
       \/ (Present(2) /\ ~message_queue[2].joined /\ ~message_queue[2].malformed)
  /\ message_queue[3] = NoRow

\* One invocation after the other on a backlog larger than a batch.
NextBatch ==
  \/ invocations < MaxBatchRuns /\ \E f \in BOOLEAN : QueueInvoke("q1", f)
  \/ MarkProcessing("q1")
  \/ \E answer \in ProviderAnswers : Send("q1", answer)
  \/ HandleSendFailure("q1")
  \/ RetryAfterRateLimit("q1")
  \/ \E cf \in BOOLEAN, insf \in BOOLEAN : Persist("q1", cf, insf)
  \/ DeleteRow("q1")
  \/ \E i \in Items : Tick(i)

\* Every row is enqueued with its joined data: the oldest pending, its
\* variables malformed or not, the next pending, the newest requeued twice.
InitBatch ==
  /\ SchedAtRest
  /\ InitQueue
  /\ \A i \in Items : Present(i) /\ message_queue[i].joined
  /\ message_queue[2].status = "pending"
  /\ message_queue[1].status = "pending" /\ ~message_queue[1].malformed
  /\ message_queue[3].status = "retry_queued"

SpecBatch == InitBatch /\ [][NextBatch]_vars

\* Two invocations, each started once, overlapping on a batch of two rows.
NextOverlap ==
  \/ invocations < MaxBatchRuns /\ \E q \in Workers, f \in BOOLEAN : QueueInvoke(q, f)
  \/ \E q \in Workers : MarkProcessing(q)
  \/ \E q \in Workers, answer \in ProviderAnswers : Send(q, answer)
  \/ \E q \in Workers : HandleSendFailure(q)
  \/ \E q \in Workers : RetryAfterRateLimit(q)
  \/ \E q \in Workers, cf \in BOOLEAN, insf \in BOOLEAN : Persist(q, cf, insf)
  \/ \E q \in Workers : DeleteRow(q)

\* Rows 1 and 2 are pending with their joined data and well-formed variables;
\* row 3 is absent.
InitOverlap ==
  /\ SchedAtRest
  /\ InitQueue
  /\ \A i \in {1, 2} : /\ message_queue[i].status = "pending"
                        /\ message_queue[i].joined /\ ~message_queue[i].malformed
  /\ message_queue[3] = NoRow

SpecOverlap == InitOverlap /\ [][NextOverlap]_vars

\* The steps of an invocation of worker q once it is started.
RunSteps(q) ==
  \/ MarkProcessing(q)
  \/ \E answer \in ProviderAnswers : Send(q, answer)
  \/ HandleSendFailure(q)
  \/ RetryAfterRateLimit(q)
  \/ \E cf \in BOOLEAN, insf \in BOOLEAN : Persist(q, cf, insf)
  \/ DeleteRow(q)

\* The trigger fires for ever, one invocation after the other, and the clock runs.
NextDrain ==
  \/ \E f \in BOOLEAN : QueueTrigger("q1", f)
  \/ RunSteps("q1")
  \/ \E i \in Items : Tick(i)

\* Row 1 is enqueued with its joined data, row 2 is absent or enqueued for a
\* campaign whose template row is gone, row 3 is absent; the variables of every
\* row are well-formed, so that no invocation is aborted.
InitDrain ==
  /\ SchedAtRest
  /\ InitQueue
  /\ Present(1) /\ message_queue[1].joined /\ ~message_queue[1].malformed
  /\ message_queue[2] = NoRow
       \/ (Present(2) /\ ~message_queue[2].joined /\ ~message_queue[2].malformed)
  /\ message_queue[3] = NoRow

\* An invocation that is started runs to its end, the trigger fires again with
\* a fetch that succeeds, and time advances to the moment a waiting row is due.
DrainFairness ==
  /\ WF_vars(RunSteps("q1"))
  /\ WF_vars(QueueTrigger("q1", FALSE))
  /\ \A i \in Items : WF_vars(Tick(i))

SpecDrain == InitDrain /\ [][NextDrain]_vars /\ DrainFairness

\* Three toggle-chatbot requests, overlapping in time, for conversation 1 or
\* for an id that is in no row.
NextToggle ==
  \/ \E t \in Togglers, cid \in {1, NULL}, is_active \in BOOLEAN, header \in IfMatchHeaders,
        fetched \in {"error", "not_configured", "row"} :
          ToggleRequest(t, cid, is_active, header, fetched)
  \/ \E t \in Togglers, executed \in {"runs", "hidden", "error"} : ToggleUpdate(t, executed)

InitToggling ==
  /\ SchedAtRest
  /\ QueueAtRest

SpecToggle == InitToggling /\ [][NextToggle]_vars

SpecQueue == InitRace /\ [][NextQueue]_vars

Next ==
  \/ NextSched \/ NextPair \/ NextRoster \/ NextBacklog
  \/ NextQueue \/ NextBatch \/ NextOverlap \/ NextDrain \/ NextToggle

Spec == Init /\ [][Next]_vars

(* ------------------------------------------------------------- properties *)
\* The calls of run p that carried a conversation of segment s.
CallsFor(p, s) == {k \in DOMAIN rpcLog[p] : rpcLog[p][k].segment = s}

\* The calls of run p for segment s that chose agent a.
ChosenFor(p, s, a) == {k \in CallsFor(p, s) : rpcLog[p][k].aid = a}

\* The calls of run p for segment s that assigned a conversation to agent a.
ReceivedFor(p, s, a) == {k \in ChosenFor(p, s, a) : rpcLog[p][k].outcome = "ok"}

\* n is floor(k / d) or ceil(k / d).
FloorOrCeil(n, k, d) == n = k \div d \/ n = (k + d - 1) \div d

\* C1: every queue row that is present has attempt_count <= MAX_RETRIES: the
\* failure handler increments the count only when the value it read is below
\* MAX_RETRIES, and otherwise records the item as failed and deletes it.
C1_AttemptCountBounded ==
  \A i \in Items : Present(i) => message_queue[i].attempt_count <= MAX_RETRIES

\* A row stands at the cap while the worker that read it there has recorded
\* "Retries exhausted" and is about to delete it.
C1_Witness ==
  \E q \in Workers :
    /\ qpc[q] = "delete"
    /\ row(q).attempt_count = MAX_RETRIES
    /\ Present(row(q).id)
    /\ message_queue[row(q).id].attempt_count = MAX_RETRIES
    /\ bulk_send_details[row(q).id] = FailedOutcome("Retries exhausted")

\* C2: the attempt_count of a queue row never decreases while the row exists,
\* whichever invocations, overlapping ones included, write it.
C2_AttemptCountNeverDecreases ==
  [][\A i \in Items :
       (Present(i) /\ message_queue'[i].status # "deleted")
         => message_queue'[i].attempt_count >= message_queue[i].attempt_count]_vars

\* C3: of two invocations of the scheduler that overlap, at most one is past
\* the lock call and inside the chunk loop at any moment.
C3_OneRunInTheLoop ==
  Cardinality({p \in Runs : pc[p] \in {"scan", "row"}}) <= 1

\* C4: a run whose lock call finds the lock held ends at once, and a run that
\* answered RUNNING_ELSEWHERE has scanned nothing, fetched no roster and
\* issued no assignment call.
C4_RefusedRunDoesNothing ==
  [][\A p \in Runs :
       /\ (pc[p] = "lock" /\ pc'[p] # "lock" /\ advisoryLock # NoRun)
            => (pc'[p] = "done" /\ response'[p] \in {"RUNNING_ELSEWHERE", "LOCK_ERROR"})
       /\ response'[p] = "RUNNING_ELSEWHERE"
            => /\ pc'[p] = "done"
               /\ scans'[p] = 0
               /\ rosterFetches'[p] = 0
               /\ rpcLog'[p] = <<>>
               /\ assignedCount'[p] = 0
               /\ failedAssignments'[p] = <<>>]_vars

\* A run was refused while the other one was working in its loop.
C4_Witness ==
  \E p, o \in Runs :
    /\ response[p] = "RUNNING_ELSEWHERE"
    /\ pc[o] = "row"
    /\ advisoryLock = o

\* C5: within one run no conversation is handed to the assignment procedure
\* twice: a call that failed on a version mismatch is not repeated for the
\* same conversation, however many chunks the backlog fills.
C5_NoCallRepeatedAfterMismatch ==
  \A p \in Runs : \A j, k \in DOMAIN rpcLog[p] :
    (j < k /\ rpcLog[p][j].outcome = "version_mismatch")
      => rpcLog[p][k].cid # rpcLog[p][j].cid

\* C6: a call whose conversation was changed by another writer since the scan
\* carries the scanned version and is rejected: the conversation keeps its
\* assignee, the failure list grows by that conversation, the count of
\* assignments stays, and the run goes on to the next row of the chunk.
C6_StaleVersionRejected ==
  [][\A p \in Runs :
       (/\ pc[p] = "row"
        /\ Len(rpcLog'[p]) = Len(rpcLog[p]) + 1
        /\ conversations[convo(p).id].version # convo(p).version)
       => /\ rpcLog'[p][Len(rpcLog'[p])].version = convo(p).version
          /\ rpcLog'[p][Len(rpcLog'[p])].outcome = "version_mismatch"
          /\ conversations'[convo(p).id] = conversations[convo(p).id]
          /\ Len(failedAssignments'[p]) = Len(failedAssignments[p]) + 1
          /\ failedAssignments'[p][Len(failedAssignments'[p])].cid = convo(p).id
          /\ assignedCount'[p] = assignedCount[p]
          /\ IF ci[p] < Len(conversationsInChunk[p])
               THEN pc'[p] = "row" /\ ci'[p] = ci[p] + 1
               ELSE pc'[p] \in {"scan", "done"} /\ response'[p] \in {"none", "OK"}]_vars

\* A call was rejected for its version, the conversation is still unassigned,
\* and the run assigned a later row of the chunk.
C6_Witness ==
  \E p \in Runs : \E j, k \in DOMAIN rpcLog[p] :
    /\ j < k
    /\ rpcLog[p][j].outcome = "version_mismatch"
    /\ conversations[rpcLog[p][j].cid].assigned_agent_id = NoAgent
    /\ rpcLog[p][j].cid \in {failedAssignments[p][f].cid : f \in DOMAIN failedAssignments[p]}
    /\ rpcLog[p][k].outcome = "ok"
    /\ rpcLog[p][k].cid # rpcLog[p][j].cid

\* C7: when a run ends, each of the N agents of a segment's roster has
\* received floor(K/N) or ceil(K/N) of the K >= N conversations of that
\* segment the run handed to the assignment procedure.
C7_EachAgentReceivesItsShare ==
  \A p \in Runs : \A s \in Segments :
    LET list == agentCache[p][s].list
        N == Len(list)
        K == Cardinality({rpcLog[p][k].cid : k \in CallsFor(p, s)})
    IN  (pc[p] = "done" /\ response[p] = "OK" /\ N > 0 /\ K >= N)
          => \A n \in 1..N :
               FloorOrCeil(Cardinality(ReceivedFor(p, s, list[n])), K, N)

\* C7, amended: of the K assignment calls a run has issued for a segment,
\* each of the N agents of the segment's cached roster is the chosen assignee
\* of floor(K/N) or ceil(K/N).
C7_EachAgentChosenForItsShare ==
  \A p \in Runs : \A s \in Segments :
    LET list == agentCache[p][s].list
        N == Len(list)
        K == Cardinality(CallsFor(p, s))
    IN  N > 0 => \A n \in 1..N :
                   FloorOrCeil(Cardinality(ChosenFor(p, s, list[n])), K, N)

\* A finished run issued three calls for a roster of two, one of them failed.
C7_Witness ==
  \E p \in Runs : \E s \in Segments :
    /\ pc[p] = "done"
    /\ Len(agentCache[p][s].list) = 2
    /\ Cardinality(CallsFor(p, s)) = 3
    /\ \E k \in CallsFor(p, s) : rpcLog[p][k].outcome # "ok"

\* C8: the agent of the first call a run issues for a segment is one whose
\* last_chat_assigned_at, as the roster fetch saw it, is null, or the earliest
\* of the roster when no agent's is null.
C8_FirstChosenIsLeastRecent ==
  \A p \in Runs : \A s \in Segments :
    CallsFor(p, s) # {} =>
      LET first == rpcLog[p][Min(CallsFor(p, s))].aid
      IN  \E e \in rosterSeen[p][s] :
            /\ e[1] = first
            /\ \A o \in rosterSeen[p][s] :
                 e[2] = NULL \/ (o[2] # NULL /\ e[2] <= o[2])

\* The roster of two had no null timestamp ahead of the other agent's, and the
\* first call went to the agent with the earlier one.
C8_Witness ==
  \E p \in Runs : \E s \in Segments :
    /\ CallsFor(p, s) # {}
    /\ Cardinality(rosterSeen[p][s]) = 2
    /\ \E e, o \in rosterSeen[p][s] :
         /\ e[1] = rpcLog[p][Min(CallsFor(p, s))].aid
         /\ e[2] # NULL
         /\ o[2] # NULL
         /\ e[2] < o[2]

\* Run p is about to scan again, and the scan returns a full chunk of rows
\* that every pass fails the same way: each row's segment has a cached roster
\* that is empty, so no row is assigned, none leaves the scan, and the flag
\* that keeps the loop going is set again.
RescansForever(p) ==
  /\ pc[p] = "scan"
  /\ scans[p] >= 1
  /\ moreConversationsToProcess[p]
  /\ LET rows == ScanQuery(targetSegment[p])
     IN  /\ Len(rows) = CHUNK_SIZE
         /\ \A k \in DOMAIN rows :
              /\ agentCache[p][rows[k].segment].cached
              /\ agentCache[p][rows[k].segment].list = <<>>

\* C9: every run that took the lock ends: no run comes to a point from which
\* its chunk loop only repeats, a backlog of CHUNK_SIZE or more rows that
\* cannot be assigned included.
C9_ChunkLoopEnds ==
  \A p \in Runs : ~RescansForever(p)

\* C10: when the conversation RPC fails for a delivered item, the outcome
\* record written is failed with the conversation RPC reason, the worker's
\* next step deletes the row, and no invocation that fetches after the
\* deletion has the item among the rows it delivers.
C10_ConversationFailureIsFinal ==
  [][/\ \A i \in Items :
          (i \in convFailed' /\ i \notin convFailed)
            => /\ bulk_send_details'[i].status = "failed"
               /\ bulk_send_details'[i].failure_reason = "Conversation RPC error"
               /\ \E q \in Workers :
                    /\ qpc[q] = "persist" /\ wa[q].success
                    /\ qpc'[q] = "delete" /\ row(q).id = i
     /\ \A q \in Workers :
          (qpc[q] = "delete" /\ qpc'[q] # "delete")
            => message_queue'[row(q).id].status = "deleted"
     /\ \A q \in Workers :
          qpc'[q] \in {"row", "send", "failure", "retry", "persist", "delete"}
            => \A k \in DOMAIN queue'[q] : queue'[q][k].id \notin convFailedBefore'[q]]_vars

\* An item failed at the conversation RPC, its record says so, its row is
\* gone, and an invocation that fetched afterwards has ended without it.
C10_Witness ==
  \E q \in Workers : \E i \in convFailedBefore[q] :
    /\ ~Present(i)
    /\ bulk_send_details[i] = FailedOutcome("Conversation RPC error")
    /\ qpc[q] = "done"
    /\ qresponse[q] = "NO_WORK"

\* Worker q is inside its for loop.
InLoop(q) == qpc[q] \notin {"idle", "done"}

\* Worker q has taken the given step for its current row.
Took(q, step) == \E k \in DOMAIN steps[q] : steps[q][k] = step

\* The last step taken for the current row of worker q.
LastStep(q) == IF steps[q] = <<>> THEN "none" ELSE steps[q][Len(steps[q])]

\* C11: a provider answer with a rate-limit code sets is_rate_capped_today, and
\* when the row was read with attempt_count 0 and is still in the queue it is
\* written retry_queued, attempt_count 1, next_attempt_at = now + 60.
C11_RateLimitRequeuesAfterFirstBackoff ==
  [][\A q \in Workers :
       /\ (qpc[q] = "failure" /\ qpc'[q] # "failure" /\ answered[q] = "error_429")
            => (is_rate_capped_today' /\ qpc'[q] = "retry")
       /\ (/\ qpc[q] = "retry" /\ qpc'[q] # "retry"
           /\ row(q).attempt_count = 0
           /\ Present(row(q).id))
            => /\ message_queue'[row(q).id].status = "retry_queued"
               /\ message_queue'[row(q).id].attempt_count = 1
               /\ message_queue'[row(q).id].next_attempt_at = now + 60]_vars

\* A row read at attempt_count 0 got a rate-limit answer: the flag is set and
\* the row waits sixty seconds for its second attempt.
C11_Witness ==
  \E q \in Workers :
    /\ answered[q] = "error_429"
    /\ LastStep(q) = "requeue"
    /\ row(q).attempt_count = 0
    /\ is_rate_capped_today
    /\ message_queue[row(q).id].status = "retry_queued"
    /\ message_queue[row(q).id].attempt_count = 1
    /\ message_queue[row(q).id].next_attempt_at = now + 60

\* C12: a failed delivery that is neither the template error nor out of
\* retries writes the row, read with attempt_count a < MAX_RETRIES, as
\* retry_queued with attempt_count a + 1 and next_attempt_at = now + B[a],
\* B = 60, 300, 1800 seconds, a schedule that never decreases in a.
C12_RetryFollowsTheSchedule ==
  [][/\ \A a \in 0..(MAX_RETRIES - 2) : Backoff(a) <= Backoff(a + 1)
     /\ \A q \in Workers :
          (/\ \/ qpc[q] = "failure" /\ answered[q] \in {"accepted_no_id", "error_500"}
              \/ qpc[q] = "retry"
           /\ qpc'[q] # qpc[q] \/ qi'[q] # qi[q]
           /\ row(q).attempt_count < MAX_RETRIES
           /\ Present(row(q).id))
          => /\ message_queue'[row(q).id].status = "retry_queued"
             /\ message_queue'[row(q).id].attempt_count = row(q).attempt_count + 1
             /\ message_queue'[row(q).id].next_attempt_at =
                  now + <<60, 300, 1800>>[row(q).attempt_count + 1]]_vars

\* A row read at attempt_count 2 was requeued at 3, due 1800 seconds later.
C12_Witness ==
  \E q \in Workers :
    /\ LastStep(q) = "requeue"
    /\ row(q).attempt_count = 2
    /\ message_queue[row(q).id].status = "retry_queued"
    /\ message_queue[row(q).id].attempt_count = 3
    /\ message_queue[row(q).id].next_attempt_at = now + 1800

\* C13: the rows a run selects were due at its fetch, and a run writes no row
\* but the one of its selection it is processing: a row requeued for time t is
\* in the selection of no run that fetches before t.
C13_NothingSelectedBeforeItIsDue ==
  [][/\ \A q \in Workers : \A k \in DOMAIN queue'[q] :
          queue'[q][k].next_attempt_at <= fetchedAt'[q]
     /\ \A i \in Items :
          message_queue'[i] # message_queue[i]
            => \E q \in Workers : InLoop(q) /\ row(q).id = i]_vars

\* A run fetched while the only row was requeued for later, and found no work.
C13_Witness ==
  \E q \in Workers : \E i \in Items :
    /\ qpc[q] = "done"
    /\ qresponse[q] = "NO_WORK"
    /\ message_queue[i].status = "retry_queued"
    /\ fetchedAt[q] < message_queue[i].next_attempt_at
    /\ fetchedAt[q] = now

\* C14: on the provider's template error 470 the outcome record is written
\* failed and the row is deleted, whatever its attempt_count, which is not
\* incremented, and the row is not requeued.
C14_TemplateErrorIsPermanent ==
  [][\A q \in Workers :
       /\ (qpc[q] = "failure" /\ qpc'[q] # "failure" /\ answered[q] = "error_470")
            => /\ bulk_send_details'[row(q).id].status = "failed"
               /\ message_queue' = message_queue
               /\ qpc'[q] = "delete"
       /\ (qpc[q] = "delete" /\ answered[q] = "error_470"
           /\ (qpc'[q] # "delete" \/ qi'[q] # qi[q]))
            => /\ message_queue'[row(q).id].status = "deleted"
               /\ bulk_send_details' = bulk_send_details]_vars

\* A row at the cap of attempts got the template error: it is deleted and its
\* record says failed.
C14_Witness ==
  \E q \in Workers :
    /\ answered[q] = "error_470"
    /\ LastStep(q) = "delete"
    /\ row(q).attempt_count = MAX_RETRIES
    /\ ~Present(row(q).id)
    /\ bulk_send_details[row(q).id].status = "failed"

\* The rows with status pending or retry_queued whose next_attempt_at has come.
DueNow ==
  {i \in Items : /\ message_queue[i].status \in {"pending", "retry_queued"}
                 /\ message_queue[i].next_attempt_at <= now}

C16_AcceptedIsSuccess ==
  [][\A q \in Workers :
       (qpc[q] = "send" /\ qpc'[q] # "send"
        /\ answered'[q] \in {"accepted_id", "accepted_no_id"})
         => (wa'[q].success /\ qpc'[q] = "persist")]_vars

\* C17: the delivery calls of one row at one attempt_count carry one key, and
\* the provider sends the message of one key out once at most.
C17_OneSendPerKey ==
  \A key \in DOMAIN providerSends : providerSends[key] <= 1

\* C18: a run that ends has gone through every row it fetched, a row whose
\* processing threw or not.
C18_RunProcessesEveryFetchedRow ==
  \A q \in Workers : qpc[q] = "done" => qi[q] = Len(queue[q])

\* C19: in the summary of a finished run failed_details has at most the
\* allowed number of entries, failed_count is the number of conversations the
\* run failed to assign, each counted once, and assigned_count is the number of
\* assignment calls that returned without error.
C19_SummaryCountsAreExact ==
  \A p \in Runs :
    (pc[p] = "done" /\ response[p] = "OK")
      => /\ Len(Summary(p).failed_details) <= MaxFailedDetails
         /\ Summary(p).failed_count =
              Cardinality({failedAssignments[p][k].cid : k \in DOMAIN failedAssignments[p]})
         /\ Summary(p).assigned_count =
              Cardinality({k \in DOMAIN rpcLog[p] : rpcLog[p][k].outcome = "ok"})

\* C20: for every row a run processes the write that marks it processing is
\* the first step taken, the check of the joined data included.
C20_ClaimComesFirst ==
  \A q \in Workers : steps[q] # <<>> => steps[q][1] = "claim"

\* C21: a due row whose campaign lacks its template row, its channel row or its
\* channel id is failed permanently by the run that finds it: once a run that
\* fetched with room in its batch has ended, no such row is still waiting in
\* the queue.
C21_MissingContextFailsPermanently ==
  \A q \in Workers : \A i \in Items :
    (/\ qpc[q] = "done"
     /\ qresponse[q] \in {"OK", "NO_WORK"}
     /\ Len(queue[q]) < BATCH_SIZE)
      => ~(/\ i \in DueNow
           /\ ~message_queue[i].joined
           /\ message_queue[i].next_attempt_at <= fetchedAt[q])

\* C22: a failed delivery whose error is not the template error is settled by
\* the attempt_count the row was read with: at 3 or more the outcome record is
\* written failed, the row is left as it is and then deleted; below 3 the row
\* is written retry_queued, stays in the queue, and no outcome record is written.
C22_ExhaustedFailsOthersRequeue ==
  [][\A q \in Workers :
       /\ (/\ \/ qpc[q] = "failure" /\ answered[q] \in {"accepted_no_id", "error_500"}
              \/ qpc[q] = "retry"
           /\ qpc'[q] # qpc[q] \/ qi'[q] # qi[q])
            => IF row(q).attempt_count >= 3
                 THEN /\ bulk_send_details'[row(q).id].status = "failed"
                      /\ message_queue' = message_queue
                      /\ qpc'[q] = "delete"
                 ELSE /\ bulk_send_details' = bulk_send_details
                      /\ qpc'[q] # "delete"
                      /\ Present(row(q).id)
                           => message_queue'[row(q).id].status = "retry_queued"
       /\ (/\ qpc[q] = "delete"
           /\ answered[q] \in {"accepted_no_id", "error_429", "error_500"}
           /\ qpc'[q] # "delete" \/ qi'[q] # qi[q])
            => /\ row(q).attempt_count >= 3
               /\ message_queue'[row(q).id].status = "deleted"]_vars

\* A row read at attempt_count 3 failed with a server error: its record says
\* failed and the row is gone.
C22_Witness ==
  \E q \in Workers :
    /\ answered[q] = "error_500"
    /\ LastStep(q) = "delete"
    /\ row(q).attempt_count = 3
    /\ ~Present(row(q).id)
    /\ bulk_send_details[row(q).id].status = "failed"

\* C23: when the delivery and the conversation rpc succeeded and insert_message
\* fails, the outcome record is written sent, with the provider's message id
\* and the insert's failure as failure_reason; the worker's next step deletes
\* the row; the worker neither requeues the row nor calls the provider for it
\* again, and no run that fetches after the deletion selects it.
C23_InsertFailureIsAWarning ==
  [][/\ \A q \in Workers :
          /\ (qpc[q] = "persist" /\ Took(q, "insert_failed")')
               => /\ bulk_send_details'[row(q).id] =
                       [status |-> "sent", whatsapp_message_id |-> wa[q].message_id,
                        failure_reason |-> "DB insert failed"]
                  /\ qpc'[q] = "delete"
                  /\ message_queue' = message_queue
                  /\ providerSends' = providerSends
          /\ (/\ qpc[q] = "delete" /\ Took(q, "insert_failed")
              /\ qpc'[q] # "delete" \/ qi'[q] # qi[q])
               => /\ message_queue'[row(q).id].status = "deleted"
                  /\ bulk_send_details' = bulk_send_details
                  /\ providerSends' = providerSends
                  /\ qpc'[q] = "done" \/ (qpc'[q] = "row" /\ qi'[q] = qi[q] + 1)
          /\ (qpc[q] \in {"idle", "done"} /\ qpc'[q] = "row")
               => \A k \in DOMAIN queue'[q] : Present(queue'[q][k].id)
     /\ \A i \in Items : ~Present(i) => message_queue'[i].status = "deleted"]_vars

\* A delivered row whose insert failed: the record says sent with the warning,
\* the row is gone, and the provider sent the message once.
C23_Witness ==
  \E q \in Workers :
    /\ Took(q, "insert_failed")
    /\ LastStep(q) = "delete"
    /\ ~Present(row(q).id)
    /\ bulk_send_details[row(q).id].status = "sent"
    /\ bulk_send_details[row(q).id].failure_reason = "DB insert failed"
    /\ providerSends[idempotencyKey(row(q))] = 1

\* C24: a row leaves the queue only by the delete of a worker that has just
\* written the row's outcome record, which then says sent or failed; a worker
\* that requeues a row updates it in place, does not delete it, and writes no
\* outcome record for it.
C24_OutcomeBeforeDelete ==
  [][/\ \A i \in Items :
          (Present(i) /\ message_queue'[i].status = "deleted")
            => /\ bulk_send_details[i].status \in {"sent", "failed"}
               /\ bulk_send_details'[i] = bulk_send_details[i]
               /\ \E q \in Workers :
                    /\ qpc[q] = "delete" /\ row(q).id = i
                    /\ LastStep(q) = "outcome"
     /\ \A q \in Workers :
          (steps'[q] # steps[q] /\ LastStep(q)' = "requeue")
            => /\ bulk_send_details' = bulk_send_details
               /\ ~Took(q, "outcome")'
               /\ ~Took(q, "delete")'
               /\ Present(row(q).id)
                    => /\ message_queue'[row(q).id].status = "retry_queued"
                       /\ message_queue' =
                            [message_queue EXCEPT ![row(q).id] = message_queue'[row(q).id]]]_vars

\* One worker requeued the row and wrote no record; a later one delivered it,
\* wrote the record and deleted the row.
C24_Witness ==
  \E q, o \in Workers :
    /\ LastStep(q) = "requeue"
    /\ LastStep(o) = "delete"
    /\ row(o).id = row(q).id
    /\ row(o).attempt_count = row(q).attempt_count + 1
    /\ ~Present(row(o).id)
    /\ bulk_send_details[row(o).id].status = "sent"

\* C25: is_rate_capped_today goes from false to true only in the step by which
\* a worker handles a failed delivery whose code is a rate-limit code, and
\* every such step leaves it true, the row's retries exhausted or not; it goes
\* from true to false only in a step of the daily reset; every other step of
\* a worker leaves it as it is.
C25_FlagSetOnRateLimitClearedByReset ==
  [][/\ (~is_rate_capped_today /\ is_rate_capped_today')
          => \E q \in Workers :
               /\ qpc[q] = "failure" /\ qpc'[q] # "failure"
               /\ answered[q] = "error_429"
               /\ wa[q].error_code \in {429, 471, 80007, 131047, 80004, 20}
     /\ (is_rate_capped_today /\ ~is_rate_capped_today')
          => UNCHANGED <<message_queue, bulk_send_details, qpc, queue, qi, wa, qresponse,
                         invocations, steps, providerSends>>
     /\ \A q \in Workers :
          /\ (qpc[q] = "failure" /\ qpc'[q] # "failure" /\ answered[q] = "error_429")
               => is_rate_capped_today'
          /\ (/\ qpc'[q] # qpc[q] \/ qi'[q] # qi[q] \/ steps'[q] # steps[q]
              /\ ~(qpc[q] = "failure" /\ answered[q] = "error_429"))
               => is_rate_capped_today' = is_rate_capped_today]_vars

\* A row read at attempt_count 3 got a rate-limit answer: the flag was set,
\* and the row was then failed for its exhausted retries and deleted.
C25_Witness ==
  \E q \in Workers :
    /\ answered[q] = "error_429"
    /\ Took(q, "flag")
    /\ LastStep(q) = "delete"
    /\ row(q).attempt_count = MAX_RETRIES
    /\ bulk_send_details[row(q).id] = FailedOutcome("Retries exhausted")
    /\ is_rate_capped_today

\* C26: the channel's flag gates nothing in the Queue Processor: a fetch that
\* succeeds (the runs on the backlog are all of worker q1) selects the due
\* rows, up to the batch size, whatever the flag says, and a worker that has marked a row processing makes the delivery
\* call for it whatever the flag says, a flag set by an earlier row of the
\* same run included.
C26_FlagIsAdvisory ==
  [][/\ (invocations' = invocations + 1 /\ qresponse'["q1"] # "QUEUE_FETCH_ERROR")
          => /\ {queue'["q1"][k].id : k \in DOMAIN queue'["q1"]} \subseteq DueNow
             /\ Len(queue'["q1"]) = IF Cardinality(DueNow) < BATCH_SIZE
                                      THEN Cardinality(DueNow) ELSE BATCH_SIZE
     /\ \A q \in Workers :
          (qpc[q] = "send" /\ steps'[q] # steps[q] /\ ~row(q).malformed)
            => /\ LastStep(q)' = "deliver"
               /\ answered'[q] \in ProviderAnswers]_vars

\* The first row of a run's batch got a rate-limit answer, which set the flag,
\* and the run has made the delivery call for its second row.
C26_Witness ==
  /\ invocations = 1
  /\ is_rate_capped_today
  /\ qi["q1"] = 2
  /\ LastStep("q1") = "deliver"
  /\ message_queue[queue["q1"][1].id].status = "retry_queued"
  /\ message_queue[queue["q1"][1].id].attempt_count = queue["q1"][1].attempt_count + 1

\* C27: a row marked processing by one invocation is that invocation's alone:
\* while it works on the row, no other invocation is past its own claim write
\* on the same row, so none delivers it or writes it or its outcome record.
C27_ClaimedRowHasOneOwner ==
  \A i \in Items :
    Cardinality({q \in Workers : InLoop(q) /\ row(q).id = i /\ Took(q, "claim")}) <= 1

\* Row i is in status processing and no invocation is working on it.
Stranded(i) ==
  /\ message_queue[i].status = "processing"
  /\ \A q \in Workers : InLoop(q) => row(q).id # i

\* C28: an invocation that ends between its claim write and its terminal or
\* retry write leaves the row in status processing, and from then on no run
\* selects the row, delivers it, writes it, deletes it or writes its outcome
\* record.
C28_StrandedRowIsNeverReclaimed ==
  [][/\ \A q \in Workers :
          (qpc[q] = "send" /\ qpc'[q] = "done")
            => /\ message_queue'[row(q).id].status = "processing"
               /\ Stranded(row(q).id)'
     /\ \A i \in Items :
          Stranded(i)
            => /\ Stranded(i)'
               /\ message_queue'[i] = message_queue[i]
               /\ bulk_send_details'[i] = bulk_send_details[i]
               /\ \A a \in 0..MAX_RETRIES : providerSends'[<<i, a>>] = providerSends[<<i, a>>]
               /\ \A q \in Workers :
                    (qpc[q] \in {"idle", "done"} /\ qpc'[q] = "row")
                      => \A k \in DOMAIN queue'[q] : queue'[q][k].id # i]_vars

\* A run ended on an exception after it had marked the oldest row processing;
\* the next run took the two other rows and ended, and the row is still
\* processing, without an outcome record.
C28_Witness ==
  /\ invocations = 2
  /\ qpc["q1"] = "done"
  /\ qresponse["q1"] = "OK"
  /\ {queue["q1"][k].id : k \in DOMAIN queue["q1"]} = {1, 3}
  /\ message_queue[2].status = "processing"
  /\ message_queue[2].malformed
  /\ bulk_send_details[2] = NoOutcome
  /\ Stranded(2)

\* Run p has issued no call for a segment whose cached roster is empty, and
\* the cursor of such a segment is where the fetch put it.
EmptyRosterUnused(p) ==
  \A s \in Segments :
    (agentCache[p][s].cached /\ agentCache[p][s].list = <<>>)
      => (agentCache[p][s].idx = 0 /\ CallsFor(p, s) = {})

\* C30: a row whose segment has an empty cached roster is recorded as failed
\* for want of agents and the run goes on: no assignment call is made for it,
\* nothing is assigned, and the segment's cursor stays where it is.
C30_EmptyRosterFailsEveryRow ==
  [][\A p \in Runs :
       /\ EmptyRosterUnused(p)
       /\ EmptyRosterUnused(p)'
       /\ (/\ pc[p] = "row"
           /\ agentCache[p][convo(p).segment].cached
           /\ agentCache[p][convo(p).segment].list = <<>>
           /\ pc'[p] # "row" \/ ci'[p] # ci[p])
            => /\ failedAssignments'[p] = Append(failedAssignments[p],
                    [cid |-> convo(p).id, aid |-> NoAgent, reason |-> "no_available_agents"])
               /\ rpcLog'[p] = rpcLog[p]
               /\ agentCache'[p] = agentCache[p]
               /\ assignedCount'[p] = assignedCount[p]
               /\ conversations' = conversations
               /\ profile' = profile]_vars

\* A finished run found the roster of s2 empty: the conversation of s2 is in
\* its failure list, it issued no call for s2, and it assigned in s1.
C30_Witness ==
  \E p \in Runs :
    /\ pc[p] = "done"
    /\ response[p] = "OK"
    /\ agentCache[p]["s2"].cached
    /\ agentCache[p]["s2"].list = <<>>
    /\ agentCache[p]["s2"].idx = 0
    /\ CallsFor(p, "s2") = {}
    /\ \E k \in DOMAIN failedAssignments[p] :
         /\ failedAssignments[p][k].cid = 2
         /\ failedAssignments[p][k].reason = "no_available_agents"
    /\ assignedCount[p] >= 1

\* The number of elements of S below k.
RankIn(S, k) == Cardinality({j \in S : j < k})

\* The timestamp of agent a as the roster fetch of run p for segment s saw it.
SeenKey(p, s, a) == (CHOOSE e \in rosterSeen[p][s] : e[1] = a)[2]

\* The list run p holds for a segment is the roster as its fetch saw it, in
\* the order of the timestamps seen then, and the calls of the run for the
\* segment went round that list from its head.
CachedRosterInUse(p) ==
  \A s \in Segments :
    agentCache[p][s].cached =>
      LET list == agentCache[p][s].list
          N == Len(list)
          calls == CallsFor(p, s)
      IN  /\ {list[n] : n \in 1..N} = {e[1] : e \in rosterSeen[p][s]}
          /\ \A i, j \in 1..N :
               i < j => \/ SeenKey(p, s, list[i]) = NULL
                        \/ /\ SeenKey(p, s, list[j]) # NULL
                           /\ SeenKey(p, s, list[i]) <= SeenKey(p, s, list[j])
          /\ \A k \in calls : rpcLog[p][k].aid = list[(RankIn(calls, k) % N) + 1]
          /\ N > 0 => agentCache[p][s].idx = Cardinality(calls) % N

\* A step keeps every list run p holds, and a roster query is issued only for
\* a segment the run holds no list for.
RosterKept(p) ==
  /\ \A s \in Segments :
       agentCache[p][s].cached
         => /\ agentCache'[p][s].cached
            /\ agentCache'[p][s].list = agentCache[p][s].list
            /\ rosterSeen'[p][s] = rosterSeen[p][s]
  /\ rosterFetches'[p] # rosterFetches[p]
       => /\ rosterFetches'[p] = rosterFetches[p] + 1
          /\ ~agentCache[p][convo(p).segment].cached

\* A roster query is issued only for a segment of which the run has processed
\* no row yet.
FirstEncounter(p) ==
  rosterFetches'[p] # rosterFetches[p]
    => \A k \in DOMAIN failedAssignments[p] :
         conversations[failedAssignments[p][k].cid].segment # convo(p).segment

\* C29: within one run the roster of a segment is queried only at the first
\* row of the segment; every later row of the segment is served from the list
\* and cursor cached then, whatever other writers do meanwhile to the agents'
\* last_chat_assigned_at, is_active or present_today.
C29_RosterFetchedOncePerSegment ==
  [][\A p \in Runs :
       /\ FirstEncounter(p)
       /\ RosterKept(p)
       /\ CachedRosterInUse(p)
       /\ CachedRosterInUse(p)']_vars

\* C29, amended: within one run the roster of a segment is queried only while
\* the run holds no list for the segment, so again after a query that failed;
\* once a query has succeeded every later row of the segment is served from
\* that list and its cursor, whatever other writers do meanwhile to the
\* agents' last_chat_assigned_at, is_active or present_today.
C29_RosterCachedOnceFetched ==
  [][\A p \in Runs :
       /\ RosterKept(p)
       /\ CachedRosterInUse(p)
       /\ CachedRosterInUse(p)']_vars

\* A later conversation of a segment went to the agent at the cached cursor
\* although another writer had meanwhile made that agent ineligible.
C29_Witness ==
  \E p \in Runs : \E s \in Segments : \E k \in CallsFor(p, s) :
    /\ RankIn(CallsFor(p, s), k) >= 1
    /\ rpcLog[p][k].outcome = "ok"
    /\ ~rpcLog[p][k].eligible
    /\ rosterFetches[p] = 1
    /\ otherWrites >= 1

\* C31: the agent of every assignment call is, at the moment of the call,
\* active, present and of the segment of the call's conversation.
C31_CalledAgentIsEligibleNow ==
  \A p \in Runs : \A k \in DOMAIN rpcLog[p] :
    /\ rpcLog[p][k].eligible
    /\ profile[rpcLog[p][k].aid].segment = conversations[rpcLog[p][k].cid].segment

\* C31, amended: every agent a run caches for a segment is, at the moment of
\* the roster query, active, present and of that segment, and the agent of
\* every assignment call is taken from the list cached for the segment of the
\* call's conversation.
C31_CalledAgentWasEligibleAtFetch ==
  [][\A p \in Runs :
       /\ (rosterFetches'[p] # rosterFetches[p] /\ agentCache'[p][convo(p).segment].cached)
            => \A n \in DOMAIN agentCache'[p][convo(p).segment].list :
                 LET a == agentCache'[p][convo(p).segment].list[n]
                 IN  /\ profile[a].is_active
                     /\ profile[a].present_today
                     /\ profile[a].segment = convo(p).segment
       /\ Len(rpcLog'[p]) = Len(rpcLog[p]) + 1
            => LET call == rpcLog'[p][Len(rpcLog'[p])]
                   list == agentCache[p][conversations[call.cid].segment].list
               IN  /\ call.cid = convo(p).id
                   /\ call.aid \in {list[n] : n \in DOMAIN list}
                   /\ profile[call.aid].segment = conversations[call.cid].segment]_vars

\* An agent who was in the roster the run fetched, and who was absent or
\* inactive by the time of the call, was passed to the procedure, which
\* assigned the conversation.
C31_Witness ==
  \E p \in Runs : \E k \in DOMAIN rpcLog[p] :
    /\ rpcLog[p][k].outcome = "ok"
    /\ ~rpcLog[p][k].eligible
    /\ \E e \in rosterSeen[p][rpcLog[p][k].segment] : e[1] = rpcLog[p][k].aid
    /\ conversations[rpcLog[p][k].cid].assigned_agent_id = rpcLog[p][k].aid

\* A conversation the run may assign: open, unassigned, and of the segment the
\* request names when it names one.
Assignable(p, c) ==
  /\ conversations[c].status = "open"
  /\ conversations[c].assigned_agent_id = NoAgent
  /\ targetSegment[p] = NoSegment \/ conversations[c].segment = targetSegment[p]

\* C32: the Scheduler issues an assignment call only for conversations that are
\* open, unassigned and of the filtered segment: a conversation that is closed,
\* already assigned or outside the filter when the call is issued is never
\* passed to the procedure.
C32_OnlyAssignablePassed ==
  [][\A p \in Runs :
       Len(rpcLog'[p]) = Len(rpcLog[p]) + 1
         => Assignable(p, rpcLog'[p][Len(rpcLog'[p])].cid)]_vars

\* C32, amended: every row a scan that succeeds returns is open, unassigned and of the
\* filtered segment when the scan reads it; every call is issued for a row of
\* the run's latest scan with the version that scan read; and a step of the run
\* changes a conversation only by an accepted call for it, which finds it open,
\* unassigned and of the filtered segment and writes its assignee and version
\* alone.  A conversation closed or assigned after the scan is still passed, and
\* the procedure rejects the call.
C32_ScannedRowsPassedOthersUntouched ==
  [][/\ \A p \in Runs :
       /\ (scans'[p] = scans[p] + 1 /\ response'[p] # "DB_ERROR")
            => \A n \in DOMAIN conversationsInChunk'[p] :
                 LET r == conversationsInChunk'[p][n]
                 IN  /\ Assignable(p, r.id)
                     /\ r.version = conversations[r.id].version
       /\ Len(rpcLog'[p]) = Len(rpcLog[p]) + 1
            => LET call == rpcLog'[p][Len(rpcLog'[p])]
               IN  /\ \E n \in DOMAIN conversationsInChunk[p] :
                         /\ conversationsInChunk[p][n].id = call.cid
                         /\ conversationsInChunk[p][n].version = call.version
                   /\ (~Assignable(p, call.cid) => call.outcome = "version_mismatch")
    /\ \A c \in Convs :
         (otherWrites' = otherWrites /\ conversations'[c] # conversations[c])
           => \E p \in Runs :
                /\ Assignable(p, c)
                /\ Len(rpcLog'[p]) = Len(rpcLog[p]) + 1
                /\ rpcLog'[p][Len(rpcLog'[p])].cid = c
                /\ rpcLog'[p][Len(rpcLog'[p])].outcome = "ok"
                /\ conversations'[c].status = conversations[c].status
                /\ conversations'[c].segment = conversations[c].segment]_vars

\* A filtered run has assigned one conversation of its scan, was rejected for
\* another that was closed after the scan, and has left the conversation
\* outside its filter as it was.
C32_Witness ==
  \E p \in Runs :
    /\ pc[p] = "done" /\ response[p] = "OK"
    /\ targetSegment[p] = "s1"
    /\ \E k \in DOMAIN rpcLog[p] :
         /\ rpcLog[p][k].outcome = "version_mismatch"
         /\ conversations[rpcLog[p][k].cid].status = "closed"
         /\ conversations[rpcLog[p][k].cid].assigned_agent_id = NoAgent
    /\ \E k \in DOMAIN rpcLog[p] :
         /\ rpcLog[p][k].outcome = "ok"
         /\ conversations[rpcLog[p][k].cid].assigned_agent_id = rpcLog[p][k].aid
    /\ \E c \in Convs :
         /\ conversations[c].segment = "s2"
         /\ conversations[c] = [status |-> "open", assigned_agent_id |-> NoAgent,
                                segment |-> "s2", version |-> 0]
         /\ \A k \in DOMAIN rpcLog[p] : rpcLog[p][k].cid # c

\* C33: the map from a segment to its roster and cursor is built anew in each
\* invocation.  An invocation starts with no segment cached, whatever the
\* invocation before it had cached; a segment enters the cache only by a roster
\* query this invocation issues, with what that query answers and the cursor at
\* 0; and the cursor is not 0 only after this invocation has issued a call.
C33_CacheBuiltFreshEachRun ==
  [][\A p \in Runs :
       /\ (pc[p] \in {"idle", "done"} /\ pc'[p] = "lock")
            => /\ \A s \in Segments : agentCache'[p][s] = NoCache
               /\ rosterFetches'[p] = 0
       /\ \A s \in Segments :
            (~agentCache[p][s].cached /\ agentCache'[p][s].cached)
              => /\ pc[p] = "row" /\ convo(p).segment = s
                 /\ rosterFetches'[p] = rosterFetches[p] + 1
                 /\ agentCache'[p][s].list \in RosterQuery(s)
                 /\ agentCache'[p][s].idx = 0
       /\ \A s \in Segments :
            (pc'[p] # "lock" /\ agentCache'[p][s] # agentCache[p][s] /\ agentCache[p][s].cached)
              => /\ agentCache'[p][s].list = agentCache[p][s].list
                 /\ Len(rpcLog'[p]) = Len(rpcLog[p]) + 1]_vars

\* A second invocation took up a segment the first had cached as a1, a2 and
\* queried its roster itself: no other writer has written, a conversation is
\* assigned to a1 by a call that is not of this invocation, and the list this
\* invocation got is a2, a1.
C33_Witness ==
  \E p \in Runs : \E s \in Segments :
    /\ otherWrites = 0
    /\ agentCache[p][s].cached
    /\ agentCache[p][s].list = <<"a2", "a1">>
    /\ rosterFetches[p] = 1
    /\ \E c \in Convs : /\ conversations[c].assigned_agent_id = "a1"
                         /\ \A k \in DOMAIN rpcLog[p] : rpcLog[p][k].cid # c

\* C34: while the cached roster of a segment is non-empty its cursor satisfies
\* 0 <= idx < length of the roster, and every selection, whether its call
\* succeeds or fails, takes the agent under the cursor and moves the cursor of
\* that segment by exactly one modulo the length; the cursors of the other
\* segments and the lists stay as they are.
C34_CursorInRangeAdvancesByOne ==
  /\ [](\A p \in Runs : \A s \in Segments :
          (agentCache[p][s].cached /\ Len(agentCache[p][s].list) > 0)
            => (0 <= agentCache[p][s].idx /\ agentCache[p][s].idx < Len(agentCache[p][s].list)))
  /\ [][\A p \in Runs :
          Len(rpcLog'[p]) = Len(rpcLog[p]) + 1
            => LET call == rpcLog'[p][Len(rpcLog'[p])]
                   old == agentCache[p][call.segment]
               IN  /\ call.aid = old.list[old.idx + 1]
                   /\ agentCache'[p][call.segment].idx = (old.idx + 1) % Len(old.list)
                   /\ agentCache'[p][call.segment].list = old.list
                   /\ \A s \in Segments \ {call.segment} :
                        agentCache'[p][s] = agentCache[p][s]]_vars

\* A call failed and the next call of the same segment went to the next agent
\* of a roster of two; the cursor has wrapped to 0.
C34_Witness ==
  \E p \in Runs : \E k \in DOMAIN rpcLog[p] :
    /\ k + 1 \in DOMAIN rpcLog[p]
    /\ rpcLog[p][k].outcome # "ok"
    /\ rpcLog[p][k + 1].segment = rpcLog[p][k].segment
    /\ rpcLog[p][k + 1].aid # rpcLog[p][k].aid
    /\ Len(agentCache[p][rpcLog[p][k].segment].list) = 2
    /\ Len(rpcLog[p]) = k + 1
    /\ agentCache[p][rpcLog[p][k].segment].idx = 0

\* Row i is gone from the queue and its outcome record is written.
DeletedWithOutcome(i) == ~Present(i) /\ bulk_send_details[i].status \in {"sent", "failed"}

\* C35: when an invocation of the Queue Processor returns OK, none of the rows
\* it fetched is in status processing: each is deleted with its outcome record
\* written, or present with status retry_queued.
C35_NothingLeftProcessingOnOK ==
  [][\A q \in Workers :
       (qpc[q] # "done" /\ qpc'[q] = "done" /\ qresponse'[q] = "OK")
         => \A k \in DOMAIN queue[q] :
              (DeletedWithOutcome(queue[q][k].id)
                 \/ message_queue[queue[q][k].id].status = "retry_queued")']_vars

\* C36: liveness.  While the Queue Processor keeps being invoked, time advances
\* and no invocation is aborted, every row that is in the queue is eventually
\* deleted with an outcome record of status sent or failed.
C36_EveryRowEventuallySettled ==
  \A i \in Items : Present(i) ~> DeletedWithOutcome(i)

\* The same of the rows whose joined data exist.
C36_JoinedRowEventuallySettled ==
  \A i \in Items : (Present(i) /\ message_queue[i].joined) ~> DeletedWithOutcome(i)

\* C37: once the outcome record of an item has status sent, no write of the
\* Queue Processor changes its status to failed or clears its provider message
\* id, the writes of an overlapping invocation that fetched the same item
\* included.
C37_SentRecordIsFinal ==
  [][\A i \in Items :
       bulk_send_details[i].status = "sent"
         => /\ bulk_send_details'[i].status = "sent"
            /\ bulk_send_details[i].whatsapp_message_id # "null"
                 => bulk_send_details'[i].whatsapp_message_id # "null"]_vars

\* The part of C37 about the provider message id alone.
C37_MessageIdIsKept ==
  [][\A i \in Items :
       (bulk_send_details[i].status = "sent"
          /\ bulk_send_details[i].whatsapp_message_id # "null")
         => bulk_send_details'[i].whatsapp_message_id # "null"]_vars

\* C38: toggle-chatbot changes is_chatbot_active of a conversation only by an
\* update whose presented version equals the stored one, and that update sets
\* the stored version to exactly the presented version + 1; an update that
\* presents a stale version leaves the row as it is and is answered 409 (500
\* when the statement itself fails); and a request whose target state is the
\* stored state is answered 204 whatever version it presents, and no request
\* writes before its update.
C38_ToggleNeedsTheStoredVersion ==
  [][/\ \A c \in Convs :
          (is_chatbot_active'[c] # is_chatbot_active[c] \/ conversations'[c] # conversations[c])
            => \E t \in Togglers :
                 /\ tpc[t] = "update" /\ tpc'[t] = "done" /\ tresponse'[t] = 200
                 /\ body[t].conversation_id = c
                 /\ conversations[c].version = version[t]
                 /\ conversations'[c] = [conversations[c] EXCEPT !.version = version[t] + 1]
                 /\ is_chatbot_active'[c] = body[t].is_active
     /\ \A t \in Togglers :
          (tpc[t] = "update" /\ tpc'[t] = "done"
             /\ conversations[body[t].conversation_id].version # version[t])
            => /\ conversations' = conversations
               /\ is_chatbot_active' = is_chatbot_active
               /\ tresponse'[t] \in {409, 500}
     /\ \A t \in Togglers :
          (tpc[t] = "idle" /\ tpc'[t] # "idle")
            => /\ conversations' = conversations
               /\ is_chatbot_active' = is_chatbot_active
               /\ tresponse'[t] = 204
                    <=> /\ version'[t] >= 0
                        /\ convoData'[t].version # NULL
                        /\ body'[t].conversation_id \in Convs
                        /\ tresponse'[t] \notin {400, 500}
                        /\ is_chatbot_active[body'[t].conversation_id] = body'[t].is_active]_vars

\* One request was accepted and wrote the presented version + 1, one that
\* presented the version the first had also presented was answered 409, and
\* one that asked for the state then stored was answered 204 though the
\* version it presented was not the stored one.
C38_Witness ==
  \E t1, t2, t3 \in Togglers :
    /\ tresponse[t1] = 200 /\ tresponse[t2] = 409 /\ tresponse[t3] = 204
    /\ version[t2] = version[t1]
    /\ \A t \in {t1, t2, t3} : body[t].conversation_id = 1
    /\ is_chatbot_active[1] = body[t1].is_active
    /\ conversations[1].version = version[t1] + 1
    /\ body[t3].is_active = is_chatbot_active[1]
    /\ version[t3] # conversations[1].version
    /\ convoData[t3].version = conversations[1].version

====
